---- MODULE Spec2Model ----
(***************************************************************************)
(* Storage retention and cleanup of Vigila.io                              *)
(* (apps/backend/services/storage_manager.py, apps/backend/routers/        *)
(* storage.py).                                                            *)
(*                                                                         *)
(* Quantities.  Byte counts are counted in blocks; UnitsPerGB blocks make  *)
(* one GB (the code divides by 1024*1024*1024).  Timestamps are counted in *)
(* clock units; DayUnits clock units make one day, so that age_days        *)
(* truncates as timedelta.days does.  Python floats are modelled as exact  *)
(* rationals [n |-> numerator, d |-> denominator] with d > 0.              *)
(***************************************************************************)
EXTENDS Integers, Sequences, FiniteSets, TLC

VARIABLES
    now,      \* the wall clock, datetime.now(), in clock units
    mounted,  \* the directories for which os.path.exists() is true
    files,    \* the recording files on disk: path -> [size, mtime, locked]
    dirs,     \* the sub-directories present beneath the mount paths
    other,    \* per mount path: the blocks of its disk used by other data
    cameras,  \* the number of rows of Camera with is_active = true
    volumes,  \* the storage_volumes table: id -> StorageVolume row
    last,     \* the last operation that ran, its arguments and what it returned
    calc,     \* the last two evaluations of calculate_max_retention_days
    sched,    \* cleanup_manager, its loop tasks and the calls in progress
    faulty    \* the faults: a mount path whose processing raises, "db" (the
              \* database is down), ProbeFault(n, path)

vars ==
    <<now, mounted, files, dirs, other, cameras, volumes, last, calc, sched,
      faulty>>

----------------------------------------------------------------------------
(* Bounds of the model *)

MaxNow ==
    2

MaxSize ==
    2

DayUnits ==
    2

UnitsPerGB ==
    2

MaxAvail ==
    7

MaxCams ==
    2

DiskTotal ==
    20

NasTotal ==
    60

MaxRequired ==
    2

MaxTasks ==
    2

MaxCalls ==
    1

MaxErrors ==
    2

----------------------------------------------------------------------------
(* Program constants *)

MIN_FREE_PERCENT ==
    5

WARNING_FREE_PERCENT ==
    10

MIN_RETENTION_DAYS ==
    1

MAX_RETENTION_DAYS ==
    365

ESTIMATED_GB_PER_CAMERA_PER_DAY ==
    12

DEFAULT_RETENTION_DAYS ==
    7

----------------------------------------------------------------------------
(* Arithmetic helpers *)

Rat(n, d) ==
    [n |-> n, d |-> d]

\* Python's int() of the quotient n/d (d > 0): truncation toward zero.
IntOf(n, d) ==
    IF n >= 0 THEN n \div d ELSE -((-n) \div d)

Max2(a, b) ==
    IF a >= b THEN a ELSE b

Min2(a, b) ==
    IF a <= b THEN a ELSE b

----------------------------------------------------------------------------
(* Retention calculator *)

\* calculate_max_retention_days with the comparison of the camera count lost:
\* a deployment without cameras divides by zero cameras and gets the minimum.
calculate_max_retention_days_nocams(available, camera_count, rate) ==
    IF rate.n <= 0
    THEN MAX_RETENTION_DAYS
    ELSE IF camera_count = 0
         THEN MIN_RETENTION_DAYS
         ELSE Max2(MIN_RETENTION_DAYS,
                   Min2(IntOf(available.n * rate.d,
                              available.d * UnitsPerGB * camera_count * rate.n),
                        MAX_RETENTION_DAYS))

\* calculate_max_retention_days dividing by the rate alone: the camera count
\* is left out of the denominator.
calculate_max_retention_days_norate(available, camera_count, rate) ==
    IF camera_count <= 0 \/ rate.n <= 0
    THEN MAX_RETENTION_DAYS
    ELSE Max2(MIN_RETENTION_DAYS,
              Min2(IntOf(available.n * rate.d,
                         available.d * UnitsPerGB * rate.n),
                   MAX_RETENTION_DAYS))

\* available: bytes (a rational number of blocks); rate: GB per camera per day.
\*   gb_available = available_bytes / 1024^3
\*   max_days = int(gb_available / (camera_count * gb_per_camera_per_day))
calculate_max_retention_days(available, camera_count, rate) ==
    IF camera_count <= 0 \/ rate.n <= 0
    THEN MAX_RETENTION_DAYS
    ELSE Max2(MIN_RETENTION_DAYS,
              Min2(IntOf(available.n * rate.d,
                         available.d * UnitsPerGB * camera_count * rate.n),
                   MAX_RETENTION_DAYS))

----------------------------------------------------------------------------
(* The filesystem: the directory tree of the recordings and its files *)

\* The mount path of the default volume.
Mounts ==
    {"/recordings"}

\* The mount path an operator gives to a volume on a second, larger disk.
NasMount ==
    "/mnt/nas"

\* shutil.disk_usage(path).total
DiskTotalOf(path) ==
    IF path = NasMount THEN NasTotal ELSE DiskTotal

\* The directories beneath the mount paths (tenant/location/camera levels),
\* in the order in which os.walk(topdown=False) yields them: children first.
SubDirSeq ==
    <<"/recordings/t1/cam1", "/recordings/t1", "/recordings/cam2",
      "/mnt/nas/cam3">>

SubDirs ==
    {SubDirSeq[i] : i \in 1..Len(SubDirSeq)}

ParentOf(d) ==
    CASE d = "/recordings/t1/cam1" -> "/recordings/t1"
      [] d = "/recordings/t1" -> "/recordings"
      [] d = "/recordings/cam2" -> "/recordings"
      [] d = "/mnt/nas/cam3" -> "/mnt/nas"
      [] OTHER -> "/"

\* The recording files (*.mp4), in the order in which glob() enumerates them.
PathSeq ==
    <<"/recordings/t1/cam1/1.mp4", "/recordings/t1/cam1/2.mp4",
      "/recordings/cam2/1.mp4", "/mnt/nas/cam3/1.mp4">>

Paths ==
    {PathSeq[i] : i \in 1..Len(PathSeq)}

DirOf(p) ==
    CASE p = "/recordings/t1/cam1/1.mp4" -> "/recordings/t1/cam1"
      [] p = "/recordings/t1/cam1/2.mp4" -> "/recordings/t1/cam1"
      [] p = "/recordings/cam2/1.mp4" -> "/recordings/cam2"
      [] p = "/mnt/nas/cam3/1.mp4" -> "/mnt/nas/cam3"
      [] OTHER -> "/"

RECURSIVE DirBeneath(_, _)
\* Directory d lies strictly beneath directory base.
DirBeneath(d, base) ==
    /\ d \in SubDirs
    /\ \/ ParentOf(d) = base
       \/ DirBeneath(ParentOf(d), base)

\* File p is matched by glob(base/**/*.mp4).
Beneath(p, base) ==
    DirOf(p) = base \/ DirBeneath(DirOf(p), base)

\* The directories a file's path runs through, below its mount path.
RECURSIVE DirChain(_)
DirChain(d) ==
    IF d \in SubDirs THEN {d} \cup DirChain(ParentOf(d)) ELSE {}

FileRecs ==
    [size : 1..MaxSize, mtime : 0..MaxNow, locked : BOOLEAN]

\* A filesystem: the files present and the sub-directories present.
\* fs.files : path -> FileRecs, fs.dirs : a set of directories.
Remove(f, p) ==
    [q \in (DOMAIN f) \ {p} |-> f[q]]

\* os.remove(path): raises (and changes nothing) for a file that cannot be
\* unlinked, otherwise unlinks it.
os_remove(fs, p) ==
    IF fs.files[p].locked
    THEN [ok |-> FALSE, fs |-> fs]
    ELSE [ok |-> TRUE, fs |-> [fs EXCEPT !.files = Remove(fs.files, p)]]

\* os.listdir(d) is empty.
IsEmptyDir(fs, d) ==
    /\ \A p \in DOMAIN fs.files : DirOf(p) # d
    /\ \A c \in fs.dirs : ParentOf(c) # d

\* (now - mtime).days
AgeDays(t, mtime) ==
    (t - mtime) \div DayUnits

RECURSIVE ScanFrom(_, _, _, _)
ScanFrom(fs, base, t, i) ==
    IF i > Len(PathSeq)
    THEN << >>
    ELSE LET p == PathSeq[i]
             rest == ScanFrom(fs, base, t, i + 1)
         IN  IF p \in DOMAIN fs.files /\ Beneath(p, base)
             THEN <<[path |-> p,
                     size |-> fs.files[p].size,
                     mtime |-> fs.files[p].mtime,
                     age_days |-> AgeDays(t, fs.files[p].mtime)]>> \o rest
             ELSE rest

\* get_recording_files(base_path): the inventory, scanned afresh.
get_recording_files(fs, ex, base, t) ==
    IF base \notin ex THEN << >> ELSE ScanFrom(fs, base, t, 1)

RECURSIVE WalkFrom_topdown(_, _, _)
\* The walk with topdown=True: each directory is tested before the
\* directories beneath it.
WalkFrom_topdown(fs, base, i) ==
    IF i > Len(SubDirSeq)
    THEN fs
    ELSE LET d == SubDirSeq[Len(SubDirSeq) + 1 - i]
         IN  IF d \in fs.dirs /\ DirBeneath(d, base) /\ IsEmptyDir(fs, d)
             THEN WalkFrom_topdown([fs EXCEPT !.dirs = @ \ {d}], base, i + 1)
             ELSE WalkFrom_topdown(fs, base, i + 1)

RECURSIVE WalkFrom(_, _, _)
\* The loop of cleanup_empty_directories over os.walk(base, topdown=False):
\* each directory beneath base is tested, after the directories beneath it,
\* with os.listdir and removed when it has no entry.
WalkFrom(fs, base, i) ==
    IF i > Len(SubDirSeq)
    THEN fs
    ELSE LET d == SubDirSeq[i]
         IN  IF d \in fs.dirs /\ DirBeneath(d, base) /\ IsEmptyDir(fs, d)
             THEN WalkFrom([fs EXCEPT !.dirs = @ \ {d}], base, i + 1)
             ELSE WalkFrom(fs, base, i + 1)

cleanup_empty_directories(fs, ex, base) ==
    IF base \notin ex THEN fs ELSE WalkFrom(fs, base, 1)

----------------------------------------------------------------------------
(* Cleanup executor *)

Removed(rec) ==
    [path |-> rec.path, size |-> rec.size, mtime |-> rec.mtime,
     age_days |-> rec.age_days]

RECURSIVE ExpireLoop_gt(_, _, _, _)
\* The loop comparing with > where the code compares with >=.
ExpireLoop_gt(recs, i, retention_days, acc) ==
    IF i > Len(recs)
    THEN acc
    ELSE LET rec == recs[i]
         IN  IF rec.age_days > retention_days
             THEN LET r == os_remove(acc.fs, rec.path)
                  IN  IF r.ok
                      THEN ExpireLoop_gt(recs, i + 1, retention_days,
                               [fs |-> r.fs,
                                deleted |-> acc.deleted + 1,
                                freed |-> acc.freed + rec.size,
                                removed |-> Append(acc.removed, Removed(rec))])
                      ELSE ExpireLoop_gt(recs, i + 1, retention_days, acc)
             ELSE ExpireLoop_gt(recs, i + 1, retention_days, acc)

RECURSIVE ExpireLoop_roundup(_, _, _, _)
\* The loop with the age rounded up to the next whole day.
ExpireLoop_roundup(recs, i, retention_days, acc) ==
    IF i > Len(recs)
    THEN acc
    ELSE LET rec == recs[i]
         IN  IF rec.age_days + 1 >= retention_days
             THEN LET r == os_remove(acc.fs, rec.path)
                  IN  IF r.ok
                      THEN ExpireLoop_roundup(recs, i + 1, retention_days,
                               [fs |-> r.fs,
                                deleted |-> acc.deleted + 1,
                                freed |-> acc.freed + rec.size,
                                removed |-> Append(acc.removed, Removed(rec))])
                      ELSE ExpireLoop_roundup(recs, i + 1, retention_days, acc)
             ELSE ExpireLoop_roundup(recs, i + 1, retention_days, acc)

RECURSIVE ExpireLoop_countfirst(_, _, _, _)
\* The loop counting a file before os.remove has succeeded.
ExpireLoop_countfirst(recs, i, retention_days, acc) ==
    IF i > Len(recs)
    THEN acc
    ELSE LET rec == recs[i]
         IN  IF rec.age_days >= retention_days
             THEN LET r == os_remove(acc.fs, rec.path)
                  IN  ExpireLoop_countfirst(recs, i + 1, retention_days,
                          [fs |-> r.fs,
                           deleted |-> acc.deleted + 1,
                           freed |-> acc.freed + rec.size,
                           removed |-> IF r.ok
                                       THEN Append(acc.removed, Removed(rec))
                                       ELSE acc.removed])
             ELSE ExpireLoop_countfirst(recs, i + 1, retention_days, acc)

RECURSIVE ExpireLoop(_, _, _, _)
\* for rec in recordings: if rec["age_days"] >= retention_days: try os.remove
ExpireLoop(recs, i, retention_days, acc) ==
    IF i > Len(recs)
    THEN acc
    ELSE LET rec == recs[i]
         IN  IF rec.age_days >= retention_days
             THEN LET r == os_remove(acc.fs, rec.path)
                  IN  IF r.ok
                      THEN ExpireLoop(recs, i + 1, retention_days,
                               [fs |-> r.fs,
                                deleted |-> acc.deleted + 1,
                                freed |-> acc.freed + rec.size,
                                removed |-> Append(acc.removed, Removed(rec))])
                      ELSE ExpireLoop(recs, i + 1, retention_days, acc)
             ELSE ExpireLoop(recs, i + 1, retention_days, acc)

NoneDeleted(fs) ==
    [fs |-> fs, deleted |-> 0, freed |-> 0, removed |-> << >>]

\* Expiry that removes nothing.
delete_old_recordings_skipped(fs, ex, base, retention_days, t) ==
    NoneDeleted(fs)

\* delete_old_recordings(base_path, retention_days) at time t: the filesystem
\* it leaves and the (files_deleted, bytes_freed) it returns.
delete_old_recordings(fs, ex, base, retention_days, t) ==
    LET recordings == get_recording_files(fs, ex, base, t)
        acc == ExpireLoop(recordings, 1, retention_days, NoneDeleted(fs))
    IN  [acc EXCEPT !.fs = cleanup_empty_directories(acc.fs, ex, base)]

\* Insertion of rec into a list sorted by mtime, after the entries with the
\* same mtime: list.sort(key=mtime) is stable.
RECURSIVE InsertByMtime(_, _)
InsertByMtime(sorted, rec) ==
    IF sorted = << >>
    THEN <<rec>>
    ELSE IF Head(sorted).mtime <= rec.mtime
         THEN <<Head(sorted)>> \o InsertByMtime(Tail(sorted), rec)
         ELSE <<rec>> \o sorted

\* The inventory left in the order glob.glob returned it.
SortByMtime_unsorted(recs) ==
    recs

RECURSIVE SortByMtime(_)
\* recordings.sort(key=lambda x: x["mtime"])
SortByMtime(recs) ==
    IF recs = << >>
    THEN << >>
    ELSE InsertByMtime(SortByMtime(SubSeq(recs, 1, Len(recs) - 1)),
                       recs[Len(recs)])

RECURSIVE EvictLoop_gt(_, _, _, _)
\* The loop stopping on > where the code stops on >=.
EvictLoop_gt(recs, i, bytes_to_free, acc) ==
    IF i > Len(recs) \/ acc.freed > bytes_to_free
    THEN acc
    ELSE LET rec == recs[i]
             r == os_remove(acc.fs, rec.path)
         IN  IF r.ok
             THEN EvictLoop_gt(recs, i + 1, bytes_to_free,
                      [fs |-> r.fs,
                       deleted |-> acc.deleted + 1,
                       freed |-> acc.freed + rec.size,
                       removed |-> Append(acc.removed, Removed(rec))])
             ELSE EvictLoop_gt(recs, i + 1, bytes_to_free, acc)

RECURSIVE EvictLoop_abort(_, _, _, _)
\* The loop leaving the batch at the first os.remove that raises.
EvictLoop_abort(recs, i, bytes_to_free, acc) ==
    IF i > Len(recs) \/ acc.freed >= bytes_to_free
    THEN acc
    ELSE LET rec == recs[i]
             r == os_remove(acc.fs, rec.path)
         IN  IF r.ok
             THEN EvictLoop_abort(recs, i + 1, bytes_to_free,
                      [fs |-> r.fs,
                       deleted |-> acc.deleted + 1,
                       freed |-> acc.freed + rec.size,
                       removed |-> Append(acc.removed, Removed(rec))])
             ELSE acc

RECURSIVE EvictLoop(_, _, _, _)
\* for rec in recordings: if bytes_freed >= bytes_to_free: break; try os.remove
EvictLoop(recs, i, bytes_to_free, acc) ==
    IF i > Len(recs) \/ acc.freed >= bytes_to_free
    THEN acc
    ELSE LET rec == recs[i]
             r == os_remove(acc.fs, rec.path)
         IN  IF r.ok
             THEN EvictLoop(recs, i + 1, bytes_to_free,
                      [fs |-> r.fs,
                       deleted |-> acc.deleted + 1,
                       freed |-> acc.freed + rec.size,
                       removed |-> Append(acc.removed, Removed(rec))])
             ELSE EvictLoop(recs, i + 1, bytes_to_free, acc)

\* delete_oldest_recordings_until_space(base_path, required_free_bytes,
\* current_free_bytes) at time t.
delete_oldest_recordings_until_space(fs, ex, base, required, current, t) ==
    IF current >= required
    THEN NoneDeleted(fs)
    ELSE LET bytes_to_free == required - current
             recordings == SortByMtime(get_recording_files(fs, ex, base, t))
             acc == EvictLoop(recordings, 1, bytes_to_free, NoneDeleted(fs))
         IN  [acc EXCEPT !.fs = cleanup_empty_directories(acc.fs, ex, base)]

----------------------------------------------------------------------------
(* Disk usage probe and storage analysis *)

RECURSIVE SumSizes(_, _)
\* sum(f["size"] for f in recs[i:])
SumSizes(recs, i) ==
    IF i > Len(recs) THEN 0 ELSE recs[i].size + SumSizes(recs, i + 1)

RECURSIVE MaxAgeOf(_, _)
\* max((f["age_days"] for f in recs[i:]), default=0)
MaxAgeOf(recs, i) ==
    IF i > Len(recs)
    THEN 0
    ELSE IF i = Len(recs)
         THEN recs[i].age_days
         ELSE Max2(recs[i].age_days, MaxAgeOf(recs, i + 1))

\* get_disk_usage(path): (total, used, free), or (0, 0, 0) for a path that
\* does not exist.  The disk of a mount path holds its recordings and the
\* other data.
get_disk_usage(fs, ex, oth, path) ==
    IF path \notin ex
    THEN [total |-> 0, used |-> 0, free |-> 0]
    ELSE LET used == oth[path] + SumSizes(ScanFrom(fs, path, 0, 1), 1)
         IN  [total |-> DiskTotalOf(path),
              used |-> used,
              free |-> DiskTotalOf(path) - used]

None ==
    "None"

\* None in an attribute that otherwise holds a number: a nullable BigInteger
\* or DateTime column, a timestamp not set yet.
NoNumber ==
    0 - 1

\* analyze_storage_and_retention(db, volume_id): the report, or the error.
\* volume_id is a key of the table, never 0, so the row is selected by id.
\* The two tests on free_percent made one after the other, with "if" where
\* the code has "elif".
SpaceWarning_both(du) ==
    (IF du.free * 100 < MIN_FREE_PERCENT * du.total
     THEN <<"critical">>
     ELSE << >>)
    \o (IF du.free * 100 < WARNING_FREE_PERCENT * du.total
        THEN <<"warning">>
        ELSE << >>)

\* if free_percent < MIN_FREE_PERCENT: level "critical"
\* elif free_percent < WARNING_FREE_PERCENT: level "warning" ("Espacio bajo")
\* with free_percent = (free / total) * 100
SpaceWarning(du) ==
    IF du.free * 100 < MIN_FREE_PERCENT * du.total
    THEN <<"critical">>
    ELSE IF du.free * 100 < WARNING_FREE_PERCENT * du.total
         THEN <<"warning">>
         ELSE << >>

analyze_storage_and_retention(db, fs, ex, oth, cams, t, volume_id) ==
    IF volume_id \notin DOMAIN db
    THEN [error |-> "No storage volume configured", recommended_retention |-> 7]
    ELSE
    LET volume == db[volume_id]
        mount_path == volume.mount_path
    IN
    IF mount_path = None \/ mount_path \notin ex
    THEN [error |-> "Storage path not accessible", recommended_retention |-> 7]
    ELSE
    LET du == get_disk_usage(fs, ex, oth, mount_path)
    IN
    IF du.total = 0
    THEN [error |-> "Cannot read disk space", recommended_retention |-> 7]
    ELSE
    LET camera_count == cams
        recs == get_recording_files(fs, ex, mount_path, t)
        total_recording_bytes == SumSizes(recs, 1)
        oldest_recording_days == MaxAgeOf(recs, 1)
        \* actual_gb_per_day / max(camera_count, 1), or the estimate
        gb_per_camera_per_day ==
            IF Len(recs) > 0 /\ oldest_recording_days > 0
            THEN Rat(total_recording_bytes,
                     UnitsPerGB * Max2(oldest_recording_days, 1)
                                * Max2(camera_count, 1))
            ELSE Rat(ESTIMATED_GB_PER_CAMERA_PER_DAY, 1)
        \* total * (1 - MIN_FREE_PERCENT / 100)
        usable_space == Rat(du.total * (100 - MIN_FREE_PERCENT), 100)
        recommended_retention ==
            calculate_max_retention_days(usable_space, camera_count,
                                         gb_per_camera_per_day)
        current_retention ==
            IF volume.retention_days = 0
            THEN DEFAULT_RETENTION_DAYS
            ELSE volume.retention_days
        space_warning == SpaceWarning(du)
        retention_warning ==
            IF current_retention > recommended_retention
            THEN <<"retention">>
            ELSE << >>
        \* estimate_required_space(...) > total, in GB on both sides
        required_warning ==
            IF camera_count * current_retention * gb_per_camera_per_day.n
                   * UnitsPerGB
               > du.total * gb_per_camera_per_day.d
            THEN <<"error">>
            ELSE << >>
    IN  [error |-> None,
         volume_id |-> volume_id,
         current_retention_days |-> current_retention,
         recommended_retention_days |-> recommended_retention,
         free_bytes |-> du.free,
         warnings |-> space_warning \o retention_warning \o required_warning,
         can_increase_retention |-> recommended_retention > current_retention]

----------------------------------------------------------------------------
(* Retention settings coordinator and its HTTP boundary *)

\* What update_retention_settings returns with nothing written.
Refused(db, fs, result) ==
    [db |-> db, fs |-> fs, result |-> result, deleted |-> 0]

\* The feasibility check with the clamp left out: the requested value is kept.
AdjustedRetention_noclamp(retention_days, recommended) ==
    retention_days

\* final_retention = recommended when retention_days > recommended (reached
\* with auto_adjust only), else retention_days.
AdjustedRetention(retention_days, recommended) ==
    IF retention_days > recommended THEN recommended ELSE retention_days

\* The rejection reporting the requested value in place of the maximum.
Rejection_requested(retention_days, recommended) ==
    [error |-> "No hay espacio suficiente",
     max_retention_days |-> retention_days]

\* The dict returned for an infeasible request without auto_adjust.
Rejection(retention_days, recommended) ==
    [error |-> "No hay espacio suficiente",
     max_retention_days |-> recommended]

\* The update that leaves the expiry to the next scheduled cycle.
RetentionCleanup_skipped(fs, ex, mount_path, final_retention, t) ==
    NoneDeleted(fs)

\* if mount_path and os.path.exists(mount_path):
\*     deleted, freed = delete_old_recordings(mount_path, final_retention)
RetentionCleanup(fs, ex, mount_path, final_retention, t) ==
    IF mount_path # None /\ mount_path \in ex
    THEN delete_old_recordings(fs, ex, mount_path, final_retention, t)
    ELSE NoneDeleted(fs)

\* update_retention_settings(db, volume_id, retention_days, auto_adjust):
\* the table and the filesystem it leaves, the dict it returns, and the
\* number of files its expiry removed.
update_retention_settings(db, fs, ex, oth, cams, t, volume_id, retention_days, auto_adjust) ==
    IF volume_id \notin DOMAIN db
    THEN Refused(db, fs, [error |-> "Storage volume not found"])
    ELSE
    LET analysis ==
            analyze_storage_and_retention(db, fs, ex, oth, cams, t, volume_id)
    IN
    IF analysis.error # None
    THEN Refused(db, fs, analysis)
    ELSE
    LET recommended == analysis.recommended_retention_days
        infeasible == retention_days > recommended
    IN
    IF infeasible /\ ~auto_adjust
    THEN Refused(db, fs, Rejection(retention_days, recommended))
    ELSE
    LET adjusted == AdjustedRetention(retention_days, recommended)
        warning == IF infeasible THEN "ajustado" ELSE None
        final_retention ==
            IF adjusted < MIN_RETENTION_DAYS
            THEN MIN_RETENTION_DAYS
            ELSE adjusted
        \* volume.retention_days = final_retention; await db.commit()
        db2 == [db EXCEPT ![volume_id].retention_days = final_retention]
        cleaned == RetentionCleanup(fs, ex, db[volume_id].mount_path,
                                    final_retention, t)
    IN  [db |-> db2,
         fs |-> cleaned.fs,
         deleted |-> cleaned.deleted,
         result |-> [error |-> None,
                     success |-> TRUE,
                     volume_id |-> volume_id,
                     retention_days |-> final_retention,
                     warning |-> warning,
                     recommended_retention_days |-> recommended]]

\* One evaluation of the calculator, as the calculator's own specification
\* records it.
Evaluate(a, c, r) ==
    [avail |-> a, cams |-> c, rate |-> r,
     out |-> calculate_max_retention_days(Rat(a, 1), c, r)]

NoCalc ==
    [prev |-> Evaluate(0, 0, Rat(0, 1)), cur |-> Evaluate(0, 0, Rat(0, 1))]

----------------------------------------------------------------------------
(* Background cleanup task: one cleanup cycle *)

\* MIN_FREE_BYTES = 1 * 1024 * 1024 * 1024, in blocks.
MIN_FREE_BYTES ==
    UnitsPerGB

\* The least integer that is >= the rational r (r >= 0).
CeilOf(r) ==
    (r.n + r.d - 1) \div r.d

\* The floor taken as the percentage alone.
MinFree_percent(total) ==
    Rat(total * MIN_FREE_PERCENT, 100)

\* min_free = max(total * MIN_FREE_PERCENT / 100, MIN_FREE_BYTES)
MinFree(total) ==
    Rat(Max2(total * MIN_FREE_PERCENT, MIN_FREE_BYTES * 100), 100)

\* The locals of _run_cleanup before the first volume: total_deleted,
\* total_freed, the attributes set on the rows of the session (updates), the
\* calls of delete_oldest_recordings_until_space made (evictions), what
\* "total, used, free = get_disk_usage(mount_path)" gave for each row
\* (probes), the rows gone through (visited), and whether an exception has
\* left the loop.
NoRun(fs) ==
    [fs |-> fs,
     total_deleted |-> 0,
     total_freed |-> 0,
     updates |-> [v \in {} |-> None],
     evictions |-> << >>,
     probes |-> [v \in {} |-> None],
     visited |-> {},
     raised |-> FALSE]

\* The locals a run keeps across "await db.commit()", when there is no run.
NoPending ==
    [total_deleted |-> 0,
     total_freed |-> 0,
     updates |-> [v \in {} |-> None]]

\* The fault "the n-th get_disk_usage(path) of a cleanup cycle finds the path
\* unreadable" (the share drops out for a moment, shutil.disk_usage raises).
ProbeFault(n, path) ==
    CASE n = 1 /\ path = NasMount -> "probe1 /mnt/nas"
      [] n = 2 /\ path = NasMount -> "probe2 /mnt/nas"
      [] n = 1 /\ path # NasMount -> "probe1 /recordings"
      [] OTHER -> "probe2 /recordings"

\* The n-th get_disk_usage(path) of the body of the loop.
ProbeAt(fs, ex, oth, flt, n, path) ==
    IF ProbeFault(n, path) \in flt
    THEN [total |-> 0, used |-> 0, free |-> 0]
    ELSE get_disk_usage(fs, ex, oth, path)

\* The body of "for volume in volumes" for the row with this id.  The
\* processing of a mount path in flt raises an exception that the helpers do
\* not catch (a MemoryError while a large tree is scanned, say), and the
\* exception leaves the loop.
ProcessVolume(run, db, ex, oth, flt, t, id) ==
    LET volume == db[id]
        mount_path == volume.mount_path
    IN
    IF mount_path = None \/ mount_path \notin ex
    THEN run
    ELSE IF mount_path \in flt
    THEN [run EXCEPT !.raised = TRUE]
    ELSE
    LET retention_days ==
            IF volume.retention_days = 0
            THEN DEFAULT_RETENTION_DAYS
            ELSE volume.retention_days
        \* Step 1: delete recordings older than retention
        old == delete_old_recordings(run.fs, ex, mount_path, retention_days, t)
        \* Step 2: check if we need emergency cleanup
        du == ProbeAt(old.fs, ex, oth, flt, 1, mount_path)
        probes == (id :> [total |-> du.total, free |-> du.free]) @@ run.probes
    IN
    IF ~(du.total > 0)
    THEN [run EXCEPT !.fs = old.fs,
                     !.total_deleted = @ + old.deleted,
                     !.total_freed = @ + old.freed,
                     !.probes = probes,
                     !.visited = @ \cup {id}]
    ELSE
    LET pressed == du.free * 100 < MIN_FREE_PERCENT * du.total
        min_free == MinFree(du.total)
        \* free and the sizes are whole, so comparing them with min_free is
        \* comparing them with the least whole number that is >= min_free
        emergency ==
            IF pressed
            THEN delete_oldest_recordings_until_space(
                     old.fs, ex, mount_path, CeilOf(min_free), du.free, t)
            ELSE NoneDeleted(old.fs)
        new == ProbeAt(emergency.fs, ex, oth, flt, 2, mount_path)
        status ==
            IF ~(new.total > 0) \/ new.free * 100 < MIN_FREE_PERCENT * new.total
            THEN "full"
            ELSE "active"
    IN  [fs |-> emergency.fs,
         total_deleted |-> run.total_deleted + old.deleted + emergency.deleted,
         total_freed |-> run.total_freed + old.freed + emergency.freed,
         updates |-> (id :> [status |-> status,
                             total_bytes |-> new.total,
                             used_bytes |-> new.used,
                             last_checked |-> t]) @@ run.updates,
         evictions |-> IF pressed
                       THEN Append(run.evictions,
                                   [volume_id |-> id,
                                    total |-> du.total,
                                    free |-> du.free,
                                    required_free_bytes |-> min_free,
                                    deleted |-> emergency.deleted])
                       ELSE run.evictions,
         probes |-> probes,
         visited |-> run.visited \cup {id},
         raised |-> FALSE]

RECURSIVE RunVolumes(_, _, _, _, _, _, _, _)
\* for volume in volumes: ... , over the rows in the order the query gave.
RunVolumes(rows, i, run, db, ex, oth, flt, t) ==
    IF i > Len(rows) \/ run.raised
    THEN run
    ELSE RunVolumes(rows, i + 1,
                    ProcessVolume(run, db, ex, oth, flt, t, rows[i]),
                    db, ex, oth, flt, t)

\* select(StorageVolume).filter(StorageVolume.is_active == True): the ids of
\* the rows, in any of the orders a query without ORDER BY may give.
ActiveRows(db) ==
    LET ids == {v \in DOMAIN db : db[v].is_active}
    IN  {rows \in [1..Cardinality(ids) -> ids] :
            \A i, j \in 1..Cardinality(ids) : rows[i] = rows[j] => i = j}

\* A commit that writes the status alone.
CommitUpdates_statusonly(db, updates) ==
    [v \in DOMAIN db |->
        IF v \in DOMAIN updates
        THEN [db[v] EXCEPT !.status = updates[v].status]
        ELSE db[v]]

\* await db.commit(): the attributes set on the rows of the session are
\* written to the table; the other columns are left as they are.
CommitUpdates(db, updates) ==
    [v \in DOMAIN db |->
        IF v \in DOMAIN updates
        THEN [db[v] EXCEPT !.status = updates[v].status,
                           !.total_bytes = updates[v].total_bytes,
                           !.used_bytes = updates[v].used_bytes,
                           !.last_checked = updates[v].last_checked]
        ELSE db[v]]

\* "Update stats" with = where the code has +=.
UpdateStats_assign(stats, run, t) ==
    [stats EXCEPT !.files_deleted = run.total_deleted,
                  !.bytes_freed = run.total_freed,
                  !.last_run = t]

\* "Update stats" setting last_run alone.
UpdateStats_timeonly(stats, run, t) ==
    [stats EXCEPT !.last_run = t]

\* self.cleanup_stats after "Update stats" at time t.
UpdateStats(stats, run, t) ==
    [stats EXCEPT !.files_deleted = @ + run.total_deleted,
                  !.bytes_freed = @ + run.total_freed,
                  !.last_run = t]

\* self.cleanup_stats["errors"].append(...): the length of the list, counted
\* up to MaxErrors.
AppendError(stats) ==
    [stats EXCEPT !.errors = Min2(@ + 1, MaxErrors)]

\* StorageCleanupManager.__init__, with no task and no call in progress.
\*   loops[k]: loop task k; pc is where it is suspended, cancel is whether a
\*             CancelledError is waiting for it, run holds the locals of its
\*             _run_cleanup.
\*   calls[c]: a call of force_cleanup in progress.
\*   stops[k]: whether a stop() is awaiting task k, and whether start() has
\*             been called since that stop() was called ("dirty").
\*   halted:   a stop() has returned and start() has not been called since
\*             that stop() was called.
\*   removed:  the number of files loop iterations have removed.
\*   counted:  the number of files loop iterations have added to
\*             cleanup_stats["files_deleted"].
NewManager ==
    [running |-> FALSE,
     task |-> 0,
     last_cleanup |-> NoNumber,
     cleanup_stats |-> [files_deleted |-> 0,
                        bytes_freed |-> 0,
                        last_run |-> NoNumber,
                        errors |-> 0],
     loops |-> [k \in 1..MaxTasks |->
                   [pc |-> "unborn", cancel |-> FALSE, run |-> NoPending]],
     calls |-> [c \in 1..MaxCalls |-> [pc |-> "idle", run |-> NoPending]],
     stops |-> [k \in 1..MaxTasks |-> "no"],
     halted |-> FALSE,
     removed |-> 0,
     counted |-> 0]

----------------------------------------------------------------------------
(* Background cleanup task: StorageCleanupManager *)

\* Task k has been created and has not finished.
Alive(s, k) ==
    s.loops[k].pc \notin {"unborn", "done"}

\* The slot asyncio.create_task takes: a task never created, or one that has
\* finished and that no stop() is awaiting; 0 when the model has none left.
FreeTask(s) ==
    LET free == {k \in 1..MaxTasks : ~Alive(s, k) /\ s.stops[k] = "no"}
    IN  IF free = {} THEN 0 ELSE CHOOSE k \in free : \A j \in free : k <= j

\* start() creating a task whether or not the manager is running.
start_always(s) ==
    LET k == FreeTask(s)
    IN  [s EXCEPT !.running = TRUE,
                  !.task = k,
                  !.loops[k] = [pc |-> "created", cancel |-> FALSE,
                                run |-> NoPending],
                  !.stops = [j \in 1..MaxTasks |->
                                IF @[j] = "no" THEN "no" ELSE "dirty"],
                  !.halted = FALSE]

\* start(): if self.running: return; self.running = True;
\* self.task = asyncio.create_task(self._cleanup_loop())
start(s) ==
    IF s.running
    THEN [s EXCEPT !.stops = [j \in 1..MaxTasks |->
                                 IF @[j] = "no" THEN "no" ELSE "dirty"],
                   !.halted = FALSE]
    ELSE LET k == FreeTask(s)
         IN  [s EXCEPT !.running = TRUE,
                       !.task = k,
                       !.loops[k] = [pc |-> "created", cancel |-> FALSE,
                                     run |-> NoPending],
                       !.stops = [j \in 1..MaxTasks |->
                                     IF @[j] = "no" THEN "no" ELSE "dirty"],
                       !.halted = FALSE]

\* stop() leaving self.running as it is.
stop_keeprunning(s) ==
    IF s.task = 0 \/ ~Alive(s, s.task)
    THEN [s EXCEPT !.halted = TRUE]
    ELSE [s EXCEPT !.loops[s.task].cancel = TRUE,
                   !.stops[s.task] = "await"]

\* stop() up to its await: self.running = False; if self.task:
\* self.task.cancel(); await self.task.  Awaiting a task that has finished
\* does not suspend, and stop() returns.
stop(s) ==
    IF s.task = 0 \/ ~Alive(s, s.task)
    THEN [s EXCEPT !.running = FALSE, !.halted = TRUE]
    ELSE [s EXCEPT !.running = FALSE,
                   !.loops[s.task].cancel = TRUE,
                   !.stops[s.task] = "await"]

\* The loop task after "except Exception as e" has recorded the error, with
\* the exception ending the task.
LoopFailed_ends(loop) ==
    [loop EXCEPT !.pc = "done", !.run = NoPending]

\* The loop task after "except Exception as e" has recorded the error: it goes
\* on to await asyncio.sleep(CLEANUP_INTERVAL_SECONDS).
LoopFailed(loop) ==
    [loop EXCEPT !.pc = "sleep", !.run = NoPending]

\* What a run keeps while it awaits db.commit().
Pending(run) ==
    [total_deleted |-> run.total_deleted,
     total_freed |-> run.total_freed,
     updates |-> run.updates]

\* The number of executions of _run_cleanup that have started and have not
\* finished.
InFlight(s) ==
    Cardinality({k \in 1..MaxTasks : s.loops[k].pc \in {"select", "commit"}})
    + Cardinality({c \in 1..MaxCalls : s.calls[c].pc \in {"select", "commit"}})

----------------------------------------------------------------------------
(* State after start-up, and the environment *)

VolumeIds ==
    {1, 2}

\* initialize_default_storage: the row created when the table is empty.
DefaultVolume ==
    [name |-> "Local Storage",
     mount_path |-> "/recordings",
     is_primary |-> TRUE,
     is_active |-> TRUE,
     status |-> "active",
     total_bytes |-> NoNumber,
     used_bytes |-> NoNumber,
     last_checked |-> NoNumber,
     retention_days |-> DEFAULT_RETENTION_DAYS]

NoFiles ==
    [p \in {} |-> [size |-> 0, mtime |-> 0, locked |-> FALSE]]

Fs ==
    [files |-> files, dirs |-> dirs]

EnvInit ==
    /\ now = 0
    /\ mounted = Mounts
    /\ files = NoFiles
    /\ dirs = {}
    /\ other = [m \in Mounts |-> 0]
    /\ volumes = [v \in {1} |-> DefaultVolume]
    /\ last = [op |-> "none"]
    /\ calc = NoCalc
    /\ sched = NewManager
    /\ faulty = {}

\* The media server closes a new recording segment at path p.
WriteFile(p, size) ==
    /\ p \notin DOMAIN files
    /\ \E m \in mounted :
          /\ Beneath(p, m)
          /\ get_disk_usage(Fs, mounted, other, m).free >= size
    /\ files' = [q \in (DOMAIN files) \cup {p} |->
                    IF q = p
                    THEN [size |-> size, mtime |-> now, locked |-> FALSE]
                    ELSE files[q]]
    /\ dirs' = dirs \cup DirChain(DirOf(p))
    /\ last' = [op |-> "write"]
    /\ UNCHANGED <<now, mounted, other, cameras, volumes, calc, sched, faulty>>

\* The permission to unlink the file at p is taken away or given back.
Chmod(p) ==
    /\ p \in DOMAIN files
    /\ files' = [files EXCEPT ![p].locked = ~@]
    /\ last' = [op |-> "chmod"]
    /\ UNCHANGED <<now, mounted, dirs, other, cameras, volumes, calc, sched, faulty>>

\* The clock advances by one unit.
Tick ==
    /\ now < MaxNow
    /\ now' = now + 1
    /\ last' = [op |-> "tick"]
    /\ UNCHANGED <<mounted, files, dirs, other, cameras, volumes, calc, sched, faulty>>

\* A mount path disappears (the share is unmounted) or comes back.
Remount(m) ==
    /\ mounted' = IF m \in mounted THEN mounted \ {m} ELSE mounted \cup {m}
    /\ last' = [op |-> "remount"]
    /\ UNCHANGED <<now, files, dirs, other, cameras, volumes, calc, sched, faulty>>

----------------------------------------------------------------------------
(* The executor called on its own *)

RetentionChoices ==
    0..(MaxNow \div DayUnits + 1)

\* The operation before this one was the same call of delete_old_recordings.
SameExpire(base, retention_days) ==
    /\ last.op = "delete_old"
    /\ last.base = base
    /\ last.retention_days = retention_days

\* delete_old_recordings(base, retention_days)
ExpireCall(base, retention_days) ==
    \E r \in {delete_old_recordings(Fs, mounted, base, retention_days, now)} :
        /\ files' = r.fs.files
        /\ dirs' = r.fs.dirs
        /\ last' = [op |-> "delete_old",
                    base |-> base,
                    retention_days |-> retention_days,
                    deleted |-> r.deleted,
                    freed |-> r.freed,
                    pruned |-> dirs \ r.fs.dirs,
                    again |-> SameExpire(base, retention_days),
                    prev_deleted |-> IF SameExpire(base, retention_days)
                                     THEN last.deleted
                                     ELSE 0]
        /\ UNCHANGED <<now, mounted, other, cameras, volumes, calc, sched, faulty>>

\* delete_oldest_recordings_until_space(base, required, current)
EvictCall(base, required, current) ==
    \E r \in {delete_oldest_recordings_until_space(Fs, mounted, base,
                                                     required, current, now)} :
        /\ files' = r.fs.files
        /\ dirs' = r.fs.dirs
        /\ last' = [op |-> "delete_oldest",
                    base |-> base,
                    required |-> required,
                    current |-> current,
                    deleted |-> r.deleted,
                    freed |-> r.freed,
                    pruned |-> dirs \ r.fs.dirs,
                    removed_sizes |-> [i \in 1..Len(r.removed) |->
                                          r.removed[i].size],
                    removed_mtimes |-> [i \in 1..Len(r.removed) |->
                                           r.removed[i].mtime]]
        /\ UNCHANGED <<now, mounted, other, cameras, volumes, calc, sched, faulty>>

ExecInit ==
    /\ EnvInit
    /\ cameras = 0

ExecNext ==
    \/ \E p \in Paths, size \in 1..MaxSize : WriteFile(p, size)
    \/ \E p \in Paths : Chmod(p)
    \/ Tick
    \/ \E m \in Mounts, r \in RetentionChoices : ExpireCall(m, r)
    \/ \E m \in Mounts, req \in 0..MaxRequired, cur \in 0..1 :
          EvictCall(m, req, cur)

SpecExec ==
    ExecInit /\ [][ExecNext]_vars

----------------------------------------------------------------------------
(* The operator-facing boundary *)

\* The retention_days an operator asks for.
RequestChoices ==
    {0, 1, 5, MAX_RETENTION_DAYS + 1}

\* The recordings the media server writes under this specification.
CoordPaths ==
    {PathSeq[1], PathSeq[3]}

\* The boundary with the upper limit left out.
RetentionInRange_noupper(retention_days) ==
    ~(retention_days < 1)

\* Neither retention_days < 1 nor retention_days > 365.
RetentionInRange(retention_days) ==
    ~(retention_days < 1) /\ ~(retention_days > MAX_RETENTION_DAYS)

\* PUT /storage/{volume_id}/retention
set_retention_settings(volume_id, retention_days, auto_adjust) ==
    IF ~RetentionInRange(retention_days)
    THEN /\ last' = [op |-> "set_retention",
                     volume_id |-> volume_id,
                     retention_days |-> retention_days,
                     auto_adjust |-> auto_adjust,
                     coordinator |-> FALSE,
                     deleted |-> 0,
                     http |-> 400,
                     result |-> [error |-> "Retention days out of range"]]
         /\ UNCHANGED <<now, mounted, files, dirs, other, cameras, volumes,
                        calc, sched, faulty>>
    ELSE \E r \in {update_retention_settings(volumes, Fs, mounted, other,
                       cameras, now, volume_id, retention_days, auto_adjust)} :
             /\ volumes' = r.db
             /\ files' = r.fs.files
             /\ dirs' = r.fs.dirs
             /\ last' = [op |-> "set_retention",
                         volume_id |-> volume_id,
                         retention_days |-> retention_days,
                         auto_adjust |-> auto_adjust,
                         coordinator |-> TRUE,
                         deleted |-> r.deleted,
                         http |-> IF r.result.error # None THEN 400 ELSE 200,
                         result |-> r.result]
             /\ UNCHANGED <<now, mounted, other, cameras, calc, sched, faulty>>

Init ==
    /\ EnvInit
    /\ cameras \in 0..1

Next ==
    \/ \E p \in CoordPaths, size \in 1..MaxSize : WriteFile(p, size)
    \/ \E p \in CoordPaths : Chmod(p)
    \/ Tick
    \/ \E m \in Mounts : Remount(m)
    \/ \E v \in VolumeIds, d \in RequestChoices, a \in BOOLEAN :
          set_retention_settings(v, d, a)

Spec ==
    Init /\ [][Next]_vars

----------------------------------------------------------------------------
(* The calculator applied to inputs drawn from bounded sets *)

AvailChoices ==
    0..MaxAvail

CamChoices ==
    0..MaxCams

\* Daily rates in GB per camera: negative, zero, 1/128, 3/128 and the default.
RateChoices ==
    {Rat(-1, 1), Rat(0, 1), Rat(1, 128), Rat(3, 128),
     Rat(ESTIMATED_GB_PER_CAMERA_PER_DAY, 1)}

CalcInit ==
    /\ now = 0
    /\ mounted = Mounts
    /\ files = NoFiles
    /\ dirs = {}
    /\ other = [m \in Mounts |-> 0]
    /\ cameras = 0
    /\ volumes = [v \in {1} |-> DefaultVolume]
    /\ last = [op |-> "none"]
    /\ sched = NewManager
    /\ faulty = {}
    /\ \E a \in AvailChoices, c \in CamChoices, r \in RateChoices :
          calc = [prev |-> Evaluate(a, c, r), cur |-> Evaluate(a, c, r)]

CalcCall ==
    /\ \E a \in AvailChoices, c \in CamChoices, r \in RateChoices :
          calc' = [prev |-> calc.cur, cur |-> Evaluate(a, c, r)]
    /\ UNCHANGED <<now, mounted, files, dirs, other, cameras, volumes, last,
                   sched, faulty>>

CalcNext ==
    CalcCall

SpecCalc ==
    CalcInit /\ [][CalcNext]_vars

----------------------------------------------------------------------------
(* C5, C6 *)

\* C5: calculate_max_retention_days is monotone for a fixed positive daily
\* rate: of two evaluations with the same camera count the one with more
\* available bytes returns at least as many days, and of two evaluations with
\* the same available bytes the one with more cameras returns at most as many.
C5_Monotone ==
    (calc.prev.rate = calc.cur.rate /\ calc.cur.rate.n > 0) =>
        /\ (calc.prev.cams = calc.cur.cams /\ calc.prev.avail <= calc.cur.avail)
              => calc.prev.out <= calc.cur.out
        /\ (calc.prev.avail = calc.cur.avail /\ calc.prev.cams <= calc.cur.cams)
              => calc.prev.out >= calc.cur.out

C5_Witness ==
    /\ calc.prev.rate = calc.cur.rate
    /\ calc.cur.rate.n > 0
    /\ calc.prev.cams = calc.cur.cams
    /\ calc.cur.cams > 0
    /\ calc.prev.avail < calc.cur.avail
    /\ calc.prev.out < calc.cur.out
    /\ calc.cur.out < MAX_RETENTION_DAYS

\* C6: the result is an integer in [1, 365]; it is 365 when there is no
\* camera or the rate is not positive; otherwise it is the floor of
\* available_gb / (camera_count * rate) clamped into [1, 365], the floor
\* stated by its two bounds: days * cameras * rate <= available_gb
\* < (days + 1) * cameras * rate.
C6_Clamp ==
    LET e == calc.cur
        \* available_gb and cameras * rate brought to the common denominator
        \* UnitsPerGB * e.rate.d
        gb == e.avail * e.rate.d
        perDay == UnitsPerGB * e.cams * e.rate.n
    IN  /\ e.out \in MIN_RETENTION_DAYS..MAX_RETENTION_DAYS
        /\ (e.cams = 0 \/ e.rate.n <= 0) => e.out = MAX_RETENTION_DAYS
        /\ (e.cams > 0 /\ e.rate.n > 0) =>
              /\ (e.out > MIN_RETENTION_DAYS) => e.out * perDay <= gb
              /\ (e.out < MAX_RETENTION_DAYS) => gb < (e.out + 1) * perDay

C6_Witness ==
    /\ calc.cur.cams > 0
    /\ calc.cur.rate.n > 0
    /\ calc.cur.out > MIN_RETENTION_DAYS
    /\ calc.cur.out < MAX_RETENTION_DAYS
    /\ calc.prev.cams = 0
    /\ calc.prev.avail = 0
    /\ calc.prev.out = MAX_RETENTION_DAYS

----------------------------------------------------------------------------
(* C1 - C4: the executor *)

\* The recordings beneath base that are present, and the age of each now.
Present(base) ==
    {p \in DOMAIN files : Beneath(p, base)}

Age(p) ==
    AgeDays(now, files[p].mtime)

C2_YoungerKept ==
    [][last'.op = "delete_old" =>
          \A p \in DOMAIN files :
              Age(p) < last'.retention_days =>
                  (p \in DOMAIN files' /\ files'[p] = files[p])]_vars

C2_Witness ==
    /\ last.op = "delete_old"
    /\ last.retention_days > 0
    /\ last.deleted > 0
    /\ \E p \in Present(last.base) : Age(p) < last.retention_days
    /\ \E p \in Present(last.base) : Age(p) + 1 = last.retention_days

\* C3: a call of delete_old_recordings that directly follows a call with the
\* same arguments, with no write in between, returns (0, 0) and removes no
\* file.
C3_SecondCallIdle ==
    [][(last'.op = "delete_old" /\ last'.again) =>
          /\ last'.deleted = 0
          /\ last'.freed = 0
          /\ files' = files]_vars

C3_Witness ==
    /\ last.op = "delete_old"
    /\ last.again
    /\ last.prev_deleted > 0
    /\ last.deleted = 0
    /\ \E p \in Present(last.base) : Age(p) >= last.retention_days
    /\ \E p \in Present(last.base) : Age(p) < last.retention_days

RECURSIVE SumSeq(_, _)
SumSeq(s, n) ==
    IF n = 0 THEN 0 ELSE s[n] + SumSeq(s, n - 1)

\* C4: delete_oldest_recordings_until_space removes no more than it needs:
\* with bytes_to_free = required_bytes - current_free_bytes, the files it
\* removed except the last one free less than bytes_to_free together; and
\* when current_free_bytes >= required_bytes it returns (0, 0) and removes
\* nothing.
C4_GreedyMinimal ==
    [][last'.op = "delete_oldest" =>
          IF last'.current >= last'.required
          THEN /\ last'.deleted = 0
               /\ last'.freed = 0
               /\ last'.removed_sizes = << >>
               /\ files' = files
          ELSE /\ last'.deleted = Len(last'.removed_sizes)
               /\ last'.freed = SumSeq(last'.removed_sizes,
                                       Len(last'.removed_sizes))
               /\ last'.deleted > 0 =>
                     SumSeq(last'.removed_sizes, last'.deleted - 1)
                         < last'.required - last'.current]_vars

C4_Witness ==
    /\ last.op = "delete_oldest"
    /\ last.current < last.required
    /\ last.deleted >= 2
    /\ last.freed > last.required - last.current
    /\ Present(last.base) # {}

----------------------------------------------------------------------------
(* C7 - C10: the coordinator and its boundary *)

\* The analysis of volume v in the state a request finds.
Analysis(v) ==
    analyze_storage_and_retention(volumes, Fs, mounted, other, cameras, now, v)

\* The request that has just been served reached the coordinator, found the
\* volume analysable, and asked for more days than the recommended maximum.
Infeasible ==
    /\ last'.op = "set_retention"
    /\ last'.coordinator
    /\ last'.volume_id \in DOMAIN volumes
    /\ Analysis(last'.volume_id).error = None
    /\ last'.retention_days
          > Analysis(last'.volume_id).recommended_retention_days

\* C7: when the requested retention_days exceeds the recommended maximum and
\* auto_adjust is true, update_retention_settings succeeds, returns and
\* persists the recommended maximum itself, a value >= 1 and <= the
\* recommendation, and attaches a warning to the result.
C7_AutoAdjustClamps ==
    [][(Infeasible /\ last'.auto_adjust) =>
          LET recommended ==
                  Analysis(last'.volume_id).recommended_retention_days
          IN  /\ last'.result.error = None
              /\ last'.http = 200
              /\ last'.result.retention_days = recommended
              /\ last'.result.retention_days >= 1
              /\ volumes'[last'.volume_id].retention_days = recommended
              /\ last'.result.warning # None]_vars

C7_Witness ==
    /\ last.op = "set_retention"
    /\ last.coordinator
    /\ last.auto_adjust
    /\ last.result.error = None
    /\ last.result.warning # None
    /\ last.result.retention_days > 1
    /\ last.result.retention_days < last.retention_days
    /\ volumes[last.volume_id].retention_days = last.result.retention_days

\* C8: when the requested retention_days exceeds the recommended maximum and
\* auto_adjust is false, update_retention_settings returns an error that
\* carries the recommended maximum, and changes nothing: the stored
\* retention_days of every volume is as before and no recording is deleted.
C8_RejectChangesNothing ==
    [][(Infeasible /\ ~last'.auto_adjust) =>
          /\ last'.result.error # None
          /\ last'.http = 400
          /\ last'.result.max_retention_days
                = Analysis(last'.volume_id).recommended_retention_days
          /\ volumes' = volumes
          /\ files' = files
          /\ dirs' = dirs]_vars

C8_Witness ==
    /\ last.op = "set_retention"
    /\ last.coordinator
    /\ ~last.auto_adjust
    /\ last.result.error = "No hay espacio suficiente"
    /\ last.result.max_retention_days > 1
    /\ last.result.max_retention_days < last.retention_days
    /\ volumes[last.volume_id].retention_days # last.retention_days
    /\ \E p \in DOMAIN files : ~files[p].locked /\ Age(p) >= 1

\* The update that has just been served succeeded.
Updated ==
    /\ last.op = "set_retention"
    /\ last.coordinator
    /\ last.result.error = None

C10_BoundaryRejects ==
    [][(/\ last'.op = "set_retention"
        /\ (last'.retention_days < 1 \/ last'.retention_days > 365)) =>
          /\ last'.http = 400
          /\ ~last'.coordinator
          /\ volumes' = volumes
          /\ files' = files
          /\ dirs' = dirs]_vars

C10_Witness ==
    /\ last.op = "set_retention"
    /\ last.retention_days > 365
    /\ last.http = 400
    /\ ~last.coordinator
    /\ last.volume_id \in DOMAIN volumes
    /\ volumes[last.volume_id].retention_days # DEFAULT_RETENTION_DAYS
    /\ \E p \in DOMAIN files : ~files[p].locked /\ Age(p) >= 1

----------------------------------------------------------------------------
(* The cleanup manager under start(), stop() and force_cleanup() *)

\* A time at which a recording written at time 0 is two days old.
SchedNow ==
    2 * DayUnits

\* The row POST /api/storage/volumes creates for a share mounted at NasMount.
NasVolume ==
    [name |-> "NAS",
     mount_path |-> NasMount,
     is_primary |-> FALSE,
     is_active |-> TRUE,
     status |-> "inactive",
     total_bytes |-> NoNumber,
     used_bytes |-> NoNumber,
     last_checked |-> NoNumber,
     retention_days |-> DEFAULT_RETENTION_DAYS]

\* The database connection is down: execute and commit raise.
DbDown ==
    "db" \in faulty

\* The for loop of _run_cleanup over the rows the query gave.
Cycle(rows) ==
    RunVolumes(rows, 1, NoRun(Fs), volumes, mounted, other, faulty, now)

\* What a step of _run_cleanup leaves in last.
Processed(op, owner, rows, run) ==
    [op |-> op,
     owner |-> owner,
     rows |-> rows,
     visited |-> run.visited,
     evictions |-> run.evictions,
     probes |-> run.probes,
     raised |-> run.raised,
     deleted |-> run.total_deleted]

\* cleanup_manager.start().  The model holds MaxTasks tasks at a time: the
\* call waits while all of them are alive or awaited.
StartCall ==
    /\ sched.running \/ FreeTask(sched) # 0
    /\ sched' = start(sched)
    /\ last' = [op |-> "start",
                was_running |-> sched.running,
                after_stop |-> sched.halted,
                created |-> \E k \in 1..MaxTasks :
                               sched'.loops[k].pc # sched.loops[k].pc]
    /\ UNCHANGED <<now, mounted, files, dirs, other, cameras, volumes, calc, faulty>>

\* cleanup_manager.stop(), up to its await or, when there is nothing to
\* await, to its return.
StopCall ==
    /\ sched' = stop(sched)
    /\ last' = [op |-> "stop", returned |-> sched'.halted]
    /\ UNCHANGED <<now, mounted, files, dirs, other, cameras, volumes, calc, faulty>>

\* stop() returns: the task it awaits has finished.
StopReturn(k) ==
    /\ sched.stops[k] # "no"
    /\ ~Alive(sched, k)
    /\ sched' = [sched EXCEPT !.stops[k] = "no",
                              !.halted = IF sched.stops[k] = "await"
                                         THEN TRUE
                                         ELSE @]
    /\ last' = [op |-> "stop_return", returned |-> TRUE]
    /\ UNCHANGED <<now, mounted, files, dirs, other, cameras, volumes, calc, faulty>>

\* _cleanup_loop at "while self.running", on its first run or after the
\* sleep: it enters _run_cleanup, which suspends at its query, or leaves the
\* loop.
LoopWake(k) ==
    /\ sched.loops[k].pc \in {"created", "sleep"}
    /\ ~sched.loops[k].cancel
    /\ sched' = [sched EXCEPT !.loops[k].pc = IF sched.running
                                              THEN "select"
                                              ELSE "done"]
    /\ last' = [op |-> "wake", task |-> k, began |-> sched.running]
    /\ UNCHANGED <<now, mounted, files, dirs, other, cameras, volumes, calc, faulty>>

\* _run_cleanup of loop task k from the result of its query to
\* "await db.commit()"; an exception is caught by _cleanup_loop.
LoopSelected(k, rows) ==
    /\ sched.loops[k].pc = "select"
    /\ ~sched.loops[k].cancel
    /\ \E run \in {IF DbDown
                   THEN [NoRun(Fs) EXCEPT !.raised = TRUE]
                   ELSE Cycle(rows)} :
          /\ files' = run.fs.files
          /\ dirs' = run.fs.dirs
          /\ sched' = IF run.raised
                      THEN [sched EXCEPT
                               !.cleanup_stats = AppendError(@),
                               !.loops[k] = LoopFailed(@),
                               !.removed = @ + run.total_deleted]
                      ELSE [sched EXCEPT
                               !.loops[k].pc = "commit",
                               !.loops[k].run = Pending(run),
                               !.removed = @ + run.total_deleted]
          /\ last' = Processed("process", "loop", rows, run)
    /\ UNCHANGED <<now, mounted, other, cameras, volumes, calc, faulty>>

\* _run_cleanup of loop task k from the end of "await db.commit()" to its
\* return, and _cleanup_loop up to "await asyncio.sleep(...)".
LoopCommitted(k) ==
    /\ sched.loops[k].pc = "commit"
    /\ ~sched.loops[k].cancel
    /\ IF DbDown
       THEN /\ sched' = [sched EXCEPT !.cleanup_stats = AppendError(@),
                                      !.loops[k] = LoopFailed(@)]
            /\ UNCHANGED volumes
       ELSE /\ volumes' = CommitUpdates(volumes, sched.loops[k].run.updates)
            /\ sched' = [sched EXCEPT
                            !.cleanup_stats =
                                UpdateStats(@, sched.loops[k].run, now),
                            !.last_cleanup = now,
                            !.counted = @ + sched.loops[k].run.total_deleted,
                            !.loops[k] = [pc |-> "sleep", cancel |-> FALSE,
                                          run |-> NoPending]]
    /\ last' = [op |-> "commit", owner |-> "loop", raised |-> DbDown]
    /\ UNCHANGED <<now, mounted, files, dirs, other, cameras, calc, faulty>>

\* The CancelledError of task.cancel() reaches loop task k where it is
\* suspended.  It is not an Exception, so nothing catches it and the task
\* ends.  When the task was awaiting db.commit(), the database may or may
\* not have applied the commit.
LoopCancelled(k, applied) ==
    /\ Alive(sched, k)
    /\ sched.loops[k].cancel
    /\ volumes' = IF sched.loops[k].pc = "commit" /\ applied
                  THEN CommitUpdates(volumes, sched.loops[k].run.updates)
                  ELSE volumes
    /\ sched' = [sched EXCEPT !.loops[k] = [pc |-> "done", cancel |-> FALSE,
                                            run |-> NoPending]]
    /\ last' = [op |-> "cancelled", task |-> k, at |-> sched.loops[k].pc]
    /\ UNCHANGED <<now, mounted, files, dirs, other, cameras, calc, faulty>>

\* POST /api/storage/cleanup/force: force_cleanup() enters _run_cleanup,
\* which suspends at its query.
ForceCall(c) ==
    /\ sched.calls[c].pc = "idle"
    /\ sched' = [sched EXCEPT !.calls[c].pc = "select"]
    /\ last' = [op |-> "force", call |-> c]
    /\ UNCHANGED <<now, mounted, files, dirs, other, cameras, volumes, calc, faulty>>

\* _run_cleanup of call c from the result of its query to
\* "await db.commit()"; an exception ends the request.
ForceSelected(c, rows) ==
    /\ sched.calls[c].pc = "select"
    /\ \E run \in {IF DbDown
                   THEN [NoRun(Fs) EXCEPT !.raised = TRUE]
                   ELSE Cycle(rows)} :
          /\ files' = run.fs.files
          /\ dirs' = run.fs.dirs
          /\ sched' = IF run.raised
                      THEN [sched EXCEPT !.calls[c] = [pc |-> "idle",
                                                       run |-> NoPending]]
                      ELSE [sched EXCEPT !.calls[c] = [pc |-> "commit",
                                                       run |-> Pending(run)]]
          /\ last' = Processed("process", "force", rows, run)
    /\ UNCHANGED <<now, mounted, other, cameras, volumes, calc, faulty>>

\* _run_cleanup of call c from the end of "await db.commit()" to its return,
\* and force_cleanup's return of {"success": True, "stats": ...}.
ForceCommitted(c) ==
    /\ sched.calls[c].pc = "commit"
    /\ IF DbDown
       THEN /\ sched' = [sched EXCEPT !.calls[c] = [pc |-> "idle",
                                                    run |-> NoPending]]
            /\ last' = [op |-> "force_failed", call |-> c]
            /\ UNCHANGED volumes
       ELSE /\ volumes' = CommitUpdates(volumes, sched.calls[c].run.updates)
            /\ sched' = [sched EXCEPT
                            !.cleanup_stats =
                                UpdateStats(@, sched.calls[c].run, now),
                            !.last_cleanup = now,
                            !.calls[c] = [pc |-> "idle", run |-> NoPending]]
            /\ last' = [op |-> "force_return",
                        call |-> c,
                        success |-> TRUE,
                        stats |-> sched'.cleanup_stats,
                        files_deleted |-> sched.calls[c].run.total_deleted,
                        bytes_freed |-> sched.calls[c].run.total_freed]
    /\ UNCHANGED <<now, mounted, files, dirs, other, cameras, calc, faulty>>

\* POST /api/storage/volumes/{volume_id}/cleanup
trigger_cleanup(volume_id) ==
    IF DbDown
    THEN /\ last' = [op |-> "trigger_cleanup", http |-> 500]
         /\ UNCHANGED <<now, mounted, files, dirs, other, cameras, volumes,
                        calc, sched, faulty>>
    ELSE IF volume_id \notin DOMAIN volumes
    THEN /\ last' = [op |-> "trigger_cleanup", http |-> 404]
         /\ UNCHANGED <<now, mounted, files, dirs, other, cameras, volumes,
                        calc, sched, faulty>>
    ELSE IF volumes[volume_id].mount_path = None
            \/ volumes[volume_id].mount_path \notin mounted
    THEN /\ last' = [op |-> "trigger_cleanup", http |-> 400]
         /\ UNCHANGED <<now, mounted, files, dirs, other, cameras, volumes,
                        calc, sched, faulty>>
    ELSE
    \E r \in {delete_old_recordings(
                 Fs, mounted, volumes[volume_id].mount_path,
                 IF volumes[volume_id].retention_days = 0
                 THEN DEFAULT_RETENTION_DAYS
                 ELSE volumes[volume_id].retention_days,
                 now)} :
    \E du \in {get_disk_usage(r.fs, mounted, other,
                              volumes[volume_id].mount_path)} :
        /\ files' = r.fs.files
        /\ dirs' = r.fs.dirs
        /\ volumes' = [volumes EXCEPT
                          ![volume_id].total_bytes = du.total,
                          ![volume_id].used_bytes = du.used,
                          ![volume_id].last_checked = now]
        /\ last' = [op |-> "trigger_cleanup",
                    http |-> 200,
                    volume_id |-> volume_id,
                    files_deleted |-> r.deleted,
                    bytes_freed |-> r.freed,
                    free_before |-> get_disk_usage(
                                        Fs, mounted, other,
                                        volumes[volume_id].mount_path).free,
                    current_free_bytes |-> du.free,
                    total |-> du.total]
        /\ UNCHANGED <<now, mounted, other, cameras, calc, sched, faulty>>

\* The database connection goes down or comes back.
DbFault ==
    /\ faulty' = IF DbDown THEN faulty \ {"db"} ELSE faulty \cup {"db"}
    /\ last' = [op |-> "db_fault"]
    /\ UNCHANGED <<now, mounted, files, dirs, other, cameras, volumes, calc, sched>>

\* The recordings the cleanup manager finds: one recording two days old and
\* one just written under /recordings, one recording two days old on the
\* share.
SchedFiles ==
    (PathSeq[1] :> [size |-> 1, mtime |-> 0, locked |-> FALSE])
    @@ (PathSeq[3] :> [size |-> 1, mtime |-> SchedNow, locked |-> FALSE])
    @@ (PathSeq[4] :> [size |-> 1, mtime |-> 0, locked |-> FALSE])

\* The application some time after start-up: the default volume alone, its
\* retention lowered to the minimum, its disk nearly full with other data or
\* not, the database up or down.
SchedInit ==
    /\ now = SchedNow
    /\ mounted = Mounts \cup {NasMount}
    /\ files = SchedFiles
    /\ dirs = UNION {DirChain(DirOf(p)) : p \in DOMAIN SchedFiles}
    /\ \E a \in {0, DiskTotal - 2} :
          other = [m \in Mounts \cup {NasMount} |->
                      IF m = NasMount THEN 0 ELSE a]
    /\ cameras = 0
    /\ volumes = (1 :> [DefaultVolume EXCEPT
                           !.retention_days = MIN_RETENTION_DAYS])
    /\ last = [op |-> "none"]
    /\ calc = NoCalc
    /\ sched = NewManager
    /\ faulty \in {{}, {"db"}}

SchedNext ==
    \/ StartCall
    \/ StopCall
    \/ \E k \in 1..MaxTasks : StopReturn(k)
    \/ \E k \in 1..MaxTasks : LoopWake(k)
    \/ \E k \in 1..MaxTasks, rows \in ActiveRows(volumes) :
          LoopSelected(k, rows)
    \/ \E k \in 1..MaxTasks : LoopCommitted(k)
    \/ \E k \in 1..MaxTasks, applied \in BOOLEAN : LoopCancelled(k, applied)
    \/ \E c \in 1..MaxCalls : ForceCall(c)
    \/ \E c \in 1..MaxCalls, rows \in ActiveRows(volumes) :
          ForceSelected(c, rows)
    \/ \E c \in 1..MaxCalls : ForceCommitted(c)

SpecSched ==
    SchedInit /\ [][SchedNext]_vars

----------------------------------------------------------------------------
(* The cleanup loop over two volumes on two disks *)

\* The application some time after start-up, with a second volume on the
\* share: the retention of the default volume lowered or not, each disk
\* nearly full with other data or not, the scan of the share failing or not.
CycleInit ==
    /\ now = SchedNow
    /\ mounted = Mounts \cup {NasMount}
    /\ files = SchedFiles
    /\ dirs = UNION {DirChain(DirOf(p)) : p \in DOMAIN SchedFiles}
    /\ \E a \in {0, DiskTotal - 2}, b \in {0, NasTotal - 2} :
          other = [m \in Mounts \cup {NasMount} |->
                      IF m = NasMount THEN b ELSE a]
    /\ cameras = 0
    /\ \E r \in {MIN_RETENTION_DAYS, DEFAULT_RETENTION_DAYS} :
          volumes = (1 :> [DefaultVolume EXCEPT !.retention_days = r])
                    @@ (2 :> NasVolume)
    /\ last = [op |-> "none"]
    /\ calc = NoCalc
    /\ sched = NewManager
    /\ faulty \in {{}, {NasMount}}

CycleNext ==
    \/ StartCall
    \/ \E k \in 1..MaxTasks : LoopWake(k)
    \/ \E k \in 1..MaxTasks, rows \in ActiveRows(volumes) :
          LoopSelected(k, rows)
    \/ \E k \in 1..MaxTasks : LoopCommitted(k)
    \/ DbFault
    \/ \E v \in VolumeIds : trigger_cleanup(v)

SpecCycle ==
    CycleInit /\ [][CycleNext]_vars

----------------------------------------------------------------------------
(* C11 - C14: the cleanup manager's tasks *)

\* C11: at most one execution of _run_cleanup is in flight at any moment:
\* a force_cleanup() and an iteration of the loop, or two force_cleanup()
\* calls, never overlap.
C11_OneRunInFlight ==
    InFlight(sched) <= 1

\* C12: stop() leaves no iteration half-executed.  Once a stop() has returned
\* (and start() has not been called since that stop() was called), every
\* file a loop iteration removed has been added to
\* cleanup_stats["files_deleted"] by that iteration, which has committed its
\* volume updates before; iterations that ended in a recorded error are left
\* aside.
C12_StopLeavesNoHalfIteration ==
    (sched.halted /\ sched.cleanup_stats.errors = 0)
        => sched.removed = sched.counted

\* The loop tasks that have been created and have not finished.
AliveTasks ==
    {k \in 1..MaxTasks : Alive(sched, k)}

\* C13, as claimed: at most one loop task is alive at any time, across any
\* sequence of start() and stop() calls, and a start() on a running
\* scheduler creates no new task.
C13_OneTaskAlive ==
    /\ Cardinality(AliveTasks) <= 1
    /\ (last.op = "start" /\ last.was_running) => ~last.created

\* C13, amended: at most one loop task that has not been cancelled is alive
\* at any time, across any sequence of start() and stop() calls, and a
\* start() on a running scheduler creates no new task.
C13_OneTaskNotCancelled ==
    /\ Cardinality({k \in AliveTasks : ~sched.loops[k].cancel}) <= 1
    /\ (last.op = "start" /\ last.was_running) => ~last.created

\* start() was called while a stop() was awaiting the cancelled task, and
\* then once more on the running scheduler.
C13_Witness ==
    /\ last.op = "start"
    /\ last.was_running
    /\ Cardinality(AliveTasks) = 2
    /\ \E k \in AliveTasks : sched.stops[k] # "no"

\* C14: the scheduler is stopped (running = False, no loop task) initially.
\* After a stop() has returned, and until start() is called again, running
\* is False, the task in self.task has finished and no iteration of the loop
\* begins.  After a start() the scheduler is running and its loop task is
\* alive and not cancelled, so that iterations begin again.
C14_StoppedAndRunning ==
    /\ sched.running \in BOOLEAN
    /\ last.op = "none" => (~sched.running /\ AliveTasks = {})
    /\ sched.halted =>
          /\ ~sched.running
          /\ sched.task = 0 \/ ~Alive(sched, sched.task)
          /\ ~(last.op = "wake" /\ last.began)
    /\ last.op = "start" =>
          /\ sched.running
          /\ Alive(sched, sched.task)
          /\ ~sched.loops[sched.task].cancel
    /\ (last.op = "wake" /\ sched.running) => last.began

\* A stop() has returned and start() has been called after it: the
\* scheduler is running again with a new loop task.
C14_Witness ==
    /\ last.op = "start"
    /\ last.after_stop
    /\ last.created
    /\ sched.running
    /\ sched.removed > 0

----------------------------------------------------------------------------
(* C15: the loop under a fair event loop *)

LiveNext ==
    \/ StartCall
    \/ StopCall
    \/ \E k \in 1..MaxTasks : StopReturn(k)
    \/ \E k \in 1..MaxTasks : LoopWake(k)
    \/ \E k \in 1..MaxTasks, rows \in ActiveRows(volumes) :
          LoopSelected(k, rows)
    \/ \E k \in 1..MaxTasks : LoopCommitted(k)
    \/ \E k \in 1..MaxTasks, applied \in BOOLEAN : LoopCancelled(k, applied)
    \/ DbFault

\* Loop task k has the result of its query to process: LoopSelected(k, rows)
\* is enabled.
SelectPending(k) ==
    /\ sched.loops[k].pc = "select"
    /\ ~sched.loops[k].cancel

\* The event loop resumes a task whose await has completed: the sleep ends
\* after CLEANUP_INTERVAL_SECONDS, a query or a commit returns or raises, a
\* CancelledError is delivered.  LoopSelected(k, rows) is enabled exactly
\* when SelectPending(k) holds and every such step ends SelectPending(k), so
\* its weak fairness is []<>~SelectPending(k).
LoopFairness ==
    \A k \in 1..MaxTasks :
        /\ WF_vars(LoopWake(k))
        /\ []<>~SelectPending(k)
        /\ WF_vars(LoopCommitted(k))
        /\ WF_vars(\E applied \in BOOLEAN : LoopCancelled(k, applied))

SpecLive ==
    SchedInit /\ [][LiveNext]_vars /\ LoopFairness

\* An iteration of the loop has just ended in an exception.
IterationFailed ==
    /\ last.op \in {"process", "commit"}
    /\ last.owner = "loop"
    /\ last.raised

\* C15: an exception raised in an iteration of the loop is caught and
\* recorded in cleanup_stats["errors"], the scheduler stays running and the
\* task goes on to its sleep; and a scheduler that stays running begins
\* iterations again and again, however many of them fail.
C15_FailuresDoNotEndTheLoop ==
    /\ [][IterationFailed' =>
             /\ sched'.cleanup_stats.errors =
                    Min2(sched.cleanup_stats.errors + 1, MaxErrors)
             /\ sched'.running = sched.running
             /\ \E k \in 1..MaxTasks :
                   /\ sched.loops[k].pc \in {"select", "commit"}
                   /\ sched'.loops[k].pc = "sleep"]_vars
    /\ []<>(~sched.running \/ (last.op = "wake" /\ last.began))

\* The loop begins an iteration after MaxErrors iterations have failed.
C15_Witness ==
    /\ last.op = "wake"
    /\ last.began
    /\ sched.cleanup_stats.errors = MaxErrors

----------------------------------------------------------------------------
(* C16, C18, C20: one cleanup cycle over the volumes *)

\* The active volumes whose mount path exists and can be scanned.
Healthy ==
    {v \in DOMAIN volumes :
        /\ volumes[v].is_active
        /\ volumes[v].mount_path \in mounted
        /\ volumes[v].mount_path \notin faulty}

\* C16: when the processing of one active volume raises in an iteration,
\* every other active volume with a readable mount path has still been gone
\* through in that iteration (expiry run, status and metrics set) and its
\* row has been updated, whatever the order of the rows.
C16_OtherVolumesStillProcessed ==
    (last.op = "process" /\ last.raised /\ ~DbDown) =>
        \A v \in Healthy :
            /\ v \in last.visited
            /\ volumes[v].last_checked = now

----------------------------------------------------------------------------
(* C17: force_cleanup *)

\* The step is one of a force_cleanup() call.
ForceStep ==
    \/ last'.op \in {"force", "force_return", "force_failed"}
    \/ last'.op = "process" /\ last'.owner = "force"

\* C17: force_cleanup() runs one iteration within the call: when it returns,
\* its run has gone from its commit to its end, the stats it returns are
\* cleanup_stats with the files_deleted and bytes_freed of that iteration
\* added, and no step of the call changes running, self.task or the loop
\* tasks.
C17_ForceCleanupReturnsItsRun ==
    [][/\ last'.op = "force_return" =>
             /\ sched.calls[last'.call].pc = "commit"
             /\ sched'.calls[last'.call].pc = "idle"
             /\ last'.files_deleted = sched.calls[last'.call].run.total_deleted
             /\ last'.bytes_freed = sched.calls[last'.call].run.total_freed
             /\ last'.stats.files_deleted =
                    sched.cleanup_stats.files_deleted + last'.files_deleted
             /\ last'.stats.bytes_freed =
                    sched.cleanup_stats.bytes_freed + last'.bytes_freed
             /\ last'.stats = sched'.cleanup_stats
       /\ ForceStep =>
             /\ sched'.running = sched.running
             /\ sched'.task = sched.task
             /\ sched'.loops = sched.loops]_vars

\* force_cleanup() has returned on a running scheduler, after its iteration
\* removed files.
C17_Witness ==
    /\ last.op = "force_return"
    /\ last.files_deleted > 0
    /\ last.stats.files_deleted >= last.files_deleted
    /\ sched.running

\* The step is an iteration of the loop going through the volumes.
TickProcessed ==
    /\ last.op = "process"
    /\ last.owner = "loop"

\* C18, as claimed: whenever an iteration of the loop runs the eviction on a
\* volume with free space below MIN_FREE_PERCENT, the required_free_bytes it
\* passes is MIN_FREE_PERCENT percent of the disk's total, whatever the
\* total.
C18_RequiredIsPercentOfTotal ==
    TickProcessed =>
        \A i \in 1..Len(last.evictions) :
            LET e == last.evictions[i]
            IN  /\ e.free * 100 < MIN_FREE_PERCENT * e.total
                /\ e.required_free_bytes.n * 100 =
                       e.required_free_bytes.d * MIN_FREE_PERCENT * e.total

\* C18, amended: the required_free_bytes it passes is the larger of
\* MIN_FREE_PERCENT percent of the disk's total and MIN_FREE_BYTES.
C18_RequiredIsPercentOrOneGB ==
    TickProcessed =>
        \A i \in 1..Len(last.evictions) :
            LET e == last.evictions[i]
            IN  /\ e.free * 100 < MIN_FREE_PERCENT * e.total
                /\ e.required_free_bytes.n * 100 =
                       e.required_free_bytes.d
                       * Max2(MIN_FREE_PERCENT * e.total, MIN_FREE_BYTES * 100)

\* One iteration ran the eviction on both disks and removed recordings on
\* each: on the share the percentage is the larger floor, on the small disk
\* MIN_FREE_BYTES is.
C18_Witness ==
    /\ TickProcessed
    /\ Len(last.evictions) = 2
    /\ \A i \in 1..2 : last.evictions[i].deleted > 0
    /\ \E i \in 1..2 :
          MIN_FREE_PERCENT * last.evictions[i].total > MIN_FREE_BYTES * 100
    /\ \E i \in 1..2 :
          MIN_FREE_PERCENT * last.evictions[i].total < MIN_FREE_BYTES * 100

\* C20: trigger_cleanup deletes the recordings older than the retention and
\* deletes the oldest recordings when the disk is nearly full: after it has
\* returned on a volume whose free space is below MIN_FREE_PERCENT, the
\* oldest-first eviction has been applied, so that no recording that could
\* be removed is left under the mount path.
C20_TriggerCleanupEvicts ==
    (/\ last.op = "trigger_cleanup"
     /\ last.http = 200
     /\ last.current_free_bytes * 100 < MIN_FREE_PERCENT * last.total)
        => \A p \in DOMAIN files :
               Beneath(p, volumes[last.volume_id].mount_path)
                   => files[p].locked

----------------------------------------------------------------------------
(* C19: the storage_volumes table under its handlers and the cleanup loop *)

\* The names an operator gives to volumes.
VolumeNames ==
    {"Local Storage", "NAS"}

\* mount_path = f"/recordings/{safe_name}", with
\* safe_name = volume.name.lower().replace(" ", "_")
GeneratedPath(name) ==
    IF name = "NAS" THEN "/recordings/nas" ELSE "/recordings/local_storage"

\* The id the database gives to a new row.
NextId(db) ==
    IF DOMAIN db = {}
    THEN 1
    ELSE (CHOOSE v \in DOMAIN db : \A w \in DOMAIN db : w <= v) + 1

\* No row loses is_primary.
UnsetPrimaries_none(db, keep) ==
    db

\* update(StorageVolume).where(StorageVolume.is_primary == True)
\* [.where(StorageVolume.id != volume_id)].values(is_primary=False)
UnsetPrimaries(db, keep) ==
    [v \in DOMAIN db |->
        IF v \in keep THEN db[v] ELSE [db[v] EXCEPT !.is_primary = FALSE]]

\* An optional boolean of StorageVolumeUpdate applied to a column.
SetIfGiven(given, old) ==
    CASE given = "true" -> TRUE
      [] given = "false" -> FALSE
      [] OTHER -> old

\* initialize_default_storage, run at every start-up of the application.
initialize_default_storage ==
    /\ volumes' = IF DOMAIN volumes = {}
                  THEN (1 :> DefaultVolume)
                  ELSE volumes
    /\ last' = [op |-> "initialize", created |-> DOMAIN volumes = {}]
    /\ UNCHANGED <<now, mounted, files, dirs, other, cameras, calc, sched, faulty>>

\* POST /api/storage/volumes
create_storage_volume(name, mount_path, is_primary, is_active) ==
    IF \E v \in DOMAIN volumes : volumes[v].name = name
    THEN /\ last' = [op |-> "create_volume", http |-> 400]
         /\ UNCHANGED <<now, mounted, files, dirs, other, cameras, volumes,
                        calc, sched, faulty>>
    ELSE
    /\ NextId(volumes) \in VolumeIds
    /\ \E db \in {IF is_primary THEN UnsetPrimaries(volumes, {}) ELSE volumes} :
          volumes' = (NextId(volumes) :>
                         [name |-> name,
                          mount_path |-> IF mount_path = None
                                         THEN GeneratedPath(name)
                                         ELSE mount_path,
                          is_primary |-> is_primary,
                          is_active |-> is_active,
                          status |-> "inactive",
                          total_bytes |-> NoNumber,
                          used_bytes |-> NoNumber,
                          last_checked |-> NoNumber,
                          retention_days |-> DEFAULT_RETENTION_DAYS]) @@ db
    /\ last' = [op |-> "create_volume", http |-> 200]
    /\ UNCHANGED <<now, mounted, files, dirs, other, cameras, calc, sched, faulty>>

\* PUT /api/storage/volumes/{volume_id}, with is_primary and is_active each
\* "true", "false" or not given.
update_storage_volume(volume_id, is_primary, is_active) ==
    IF volume_id \notin DOMAIN volumes
    THEN /\ last' = [op |-> "update_volume", http |-> 404]
         /\ UNCHANGED <<now, mounted, files, dirs, other, cameras, volumes,
                        calc, sched, faulty>>
    ELSE
    /\ \E db \in {IF is_primary = "true"
                  THEN UnsetPrimaries(volumes, {volume_id})
                  ELSE volumes} :
          volumes' = [db EXCEPT
                         ![volume_id].is_primary = SetIfGiven(is_primary, @),
                         ![volume_id].is_active = SetIfGiven(is_active, @)]
    /\ last' = [op |-> "update_volume", http |-> 200]
    /\ UNCHANGED <<now, mounted, files, dirs, other, cameras, calc, sched, faulty>>

\* POST /api/storage/volumes/{volume_id}/set-primary
set_primary_volume(volume_id) ==
    IF volume_id \notin DOMAIN volumes
    THEN /\ last' = [op |-> "set_primary", http |-> 404]
         /\ UNCHANGED <<now, mounted, files, dirs, other, cameras, volumes,
                        calc, sched, faulty>>
    ELSE IF volumes[volume_id].mount_path = None
            \/ volumes[volume_id].mount_path \notin mounted
    THEN /\ last' = [op |-> "set_primary", http |-> 400]
         /\ UNCHANGED <<now, mounted, files, dirs, other, cameras, volumes,
                        calc, sched, faulty>>
    ELSE
    /\ volumes' = [UnsetPrimaries(volumes, {}) EXCEPT
                      ![volume_id].is_primary = TRUE,
                      ![volume_id].is_active = TRUE]
    /\ last' = [op |-> "set_primary", http |-> 200]
    /\ UNCHANGED <<now, mounted, files, dirs, other, cameras, calc, sched, faulty>>

\* The application before its first start-up: no row in storage_volumes.
VolInit ==
    /\ now = SchedNow
    /\ mounted = Mounts \cup {NasMount}
    /\ files = SchedFiles
    /\ dirs = UNION {DirChain(DirOf(p)) : p \in DOMAIN SchedFiles}
    /\ other = [m \in Mounts \cup {NasMount} |-> 0]
    /\ cameras = 0
    /\ volumes = [v \in {} |-> DefaultVolume]
    /\ last = [op |-> "none"]
    /\ calc = NoCalc
    /\ sched = NewManager
    /\ faulty = {}

VolNext ==
    \/ initialize_default_storage
    \/ \E name \in VolumeNames, m \in {NasMount, None}, p, a \in BOOLEAN :
          create_storage_volume(name, m, p, a)
    \/ \E v \in VolumeIds, p, a \in {"true", "false", "unset"} :
          update_storage_volume(v, p, a)
    \/ \E v \in VolumeIds : set_primary_volume(v)
    \/ \E v \in VolumeIds, a \in BOOLEAN :
          set_retention_settings(v, MIN_RETENTION_DAYS, a)
    \/ StartCall
    \/ \E k \in 1..MaxTasks : LoopWake(k)
    \/ \E k \in 1..MaxTasks, rows \in ActiveRows(volumes) :
          LoopSelected(k, rows)
    \/ \E k \in 1..MaxTasks : LoopCommitted(k)

SpecVol ==
    VolInit /\ [][VolNext]_vars

\* The rows that are primary.
Primaries ==
    {v \in DOMAIN volumes : volumes[v].is_primary}

\* The step is one of the cleanup loop.
LoopOp ==
    last'.op \in {"start", "wake", "process", "commit"}

\* C19: at most one volume has is_primary = TRUE after any sequence of
\* create_storage_volume, update_storage_volume, set_primary_volume,
\* initialize_default_storage and set_retention_settings calls and steps of
\* the cleanup loop; the steps of the loop change no column of a row other
\* than status, total_bytes, used_bytes and last_checked, and neither they
\* nor update_retention_settings change is_primary.
C19_AtMostOnePrimary ==
    [][/\ Cardinality(Primaries') <= 1
       /\ LoopOp =>
             /\ DOMAIN volumes' = DOMAIN volumes
             /\ \A v \in DOMAIN volumes :
                   [volumes'[v] EXCEPT
                       !.status = volumes[v].status,
                       !.total_bytes = volumes[v].total_bytes,
                       !.used_bytes = volumes[v].used_bytes,
                       !.last_checked = volumes[v].last_checked] = volumes[v]
       /\ (LoopOp \/ last'.op = "set_retention") =>
             /\ DOMAIN volumes' = DOMAIN volumes
             /\ \A v \in DOMAIN volumes :
                   volumes'[v].is_primary = volumes[v].is_primary]_vars

\* The primary has moved from the default volume to the second one, and an
\* iteration of the loop that began before has committed its updates of
\* both rows.
C19_Witness ==
    /\ DOMAIN volumes = VolumeIds
    /\ Primaries = {2}
    /\ last.op = "commit"
    /\ \A v \in VolumeIds : volumes[v].last_checked # NoNumber

----------------------------------------------------------------------------
(* C21, C22, C30: the executor's order, its failures and its pruning *)

\* No recording beneath base refuses os.remove.
NoneLocked(base) ==
    \A p \in Present(base) : ~files[p].locked

\* C21: delete_oldest_recordings_until_space evicts oldest first: when no
\* os.remove fails, the files it removes are a prefix of the inventory sorted
\* ascending by mtime (they are removed in nondecreasing mtime order and every
\* removed file has mtime <= the mtime of every file left beneath base_path),
\* whatever their age: no retention period protects a file from eviction.
C21_OldestFirst ==
    [][(last'.op = "delete_oldest" /\ NoneLocked(last'.base)) =>
          /\ Len(last'.removed_mtimes)
                = Cardinality(DOMAIN files \ DOMAIN files')
          /\ \A i, j \in 1..Len(last'.removed_mtimes) :
                i <= j => last'.removed_mtimes[i] <= last'.removed_mtimes[j]
          /\ \A p \in DOMAIN files \ DOMAIN files' :
                /\ Beneath(p, last'.base)
                /\ \A q \in DOMAIN files' :
                      Beneath(q, last'.base) =>
                          files[p].mtime <= files'[q].mtime]_vars

\* An eviction that removed a file written at the current instant (age 0, so
\* younger than every retention period) after an older one, and left a file
\* behind.
C21_Witness ==
    /\ last.op = "delete_oldest"
    /\ now > 0
    /\ Len(last.removed_mtimes) >= 2
    /\ last.removed_mtimes[1] < now
    /\ last.removed_mtimes[Len(last.removed_mtimes)] = now
    /\ \A p \in DOMAIN files : ~files[p].locked
    /\ Present(last.base) # {}


RECURSIVE SizeSumIn(_, _)
\* The sizes of the recordings of f at the paths in S, added up.
SizeSumIn(f, S) ==
    IF S = {}
    THEN 0
    ELSE LET p == CHOOSE q \in S : TRUE
         IN  f[p].size + SizeSumIn(f, S \ {p})

SizeSum(S) ==
    SizeSumIn(files, S)

\* C22: a deletion that fails neither ends a batch nor is counted, in expiry
\* and in eviction alike: the file whose os.remove raised stays, the
\* candidates after it are still tried (expiry removes every expired file that
\* can be removed; eviction leaves a removable file only when the deficit is
\* covered), and the files_deleted and bytes_freed returned are the number and
\* the total size of the files that are really gone.
C22_FailedRemoveSkipped ==
    [][last'.op \in {"delete_old", "delete_oldest"} =>
          /\ last'.deleted = Cardinality(DOMAIN files \ DOMAIN files')
          /\ last'.freed = SizeSum(DOMAIN files \ DOMAIN files')
          /\ \A p \in DOMAIN files :
                files[p].locked => (p \in DOMAIN files' /\ files'[p] = files[p])
          /\ last'.op = "delete_old" =>
                \A p \in Present(last'.base) :
                    (Age(p) >= last'.retention_days /\ ~files[p].locked)
                        => p \notin DOMAIN files'
          /\ (last'.op = "delete_oldest" /\ last'.current < last'.required) =>
                \/ last'.freed >= last'.required - last'.current
                \/ \A p \in Present(last'.base) :
                      p \in DOMAIN files' => files[p].locked]_vars

\* An eviction in which the oldest file could not be removed and a younger
\* one was removed after it, the count being that of the files removed.
C22_Witness ==
    /\ last.op = "delete_oldest"
    /\ last.deleted > 0
    /\ last.deleted = Len(last.removed_mtimes)
    /\ \E p \in Present(last.base) :
          /\ files[p].locked
          /\ files[p].mtime < last.removed_mtimes[1]


\* C30: the pruning of empty directories is complete and bottom-up: after a
\* deletion pass over base_path (expiry, or an eviction that had a deficit to
\* cover) no directory strictly beneath base_path is empty, the directories
\* emptied by the pruning of their own sub-directories in that pass included;
\* the directories removed are beneath base_path and hold no entry, so that
\* base_path itself and every directory that still holds a file or a
\* directory stay.
C30_NoEmptyDirectoryLeft ==
    [][(\/ last'.op = "delete_old"
        \/ last'.op = "delete_oldest" /\ last'.current < last'.required) =>
          /\ \A d \in dirs' :
                DirBeneath(d, last'.base) =>
                    \/ \E p \in DOMAIN files' : DirOf(p) = d
                    \/ \E c \in dirs' : ParentOf(c) = d
          /\ \A d \in dirs \ dirs' :
                /\ DirBeneath(d, last'.base)
                /\ \A p \in DOMAIN files' : DirOf(p) # d
                /\ \A c \in dirs' : ParentOf(c) # d
          /\ last'.pruned = dirs \ dirs'
          /\ mounted' = mounted]_vars

\* A pass that removed the last files of /recordings/t1/cam1, pruned that
\* directory and then its parent, which held nothing else, and kept
\* /recordings/cam2 with its file.
C30_Witness ==
    /\ last.op \in {"delete_old", "delete_oldest"}
    /\ last.base = "/recordings"
    /\ last.deleted > 0
    /\ last.pruned = {"/recordings/t1/cam1", "/recordings/t1"}
    /\ "/recordings/cam2" \in dirs
    /\ "/recordings/cam2/1.mp4" \in DOMAIN files
    /\ "/recordings" \in mounted

----------------------------------------------------------------------------
(* The cleanup loop over volumes that are skipped and probes that fail *)

\* The second row of the table: the share, active or switched off; a volume
\* created without mount_path under the name "cam2", for which
\* create_storage_volume generated /recordings/cam2, switched off; a row
\* whose mount_path is NULL.
SecondVolumes ==
    {NasVolume,
     [NasVolume EXCEPT !.is_active = FALSE],
     [NasVolume EXCEPT !.name = "cam2",
                       !.mount_path = "/recordings/cam2",
                       !.is_active = FALSE],
     [NasVolume EXCEPT !.mount_path = None]}

\* The application some time after start-up, with the share mounted or not
\* and one probe of a cycle failing or none.
ProbeInit ==
    /\ now = SchedNow
    /\ mounted \in {Mounts \cup {NasMount}, Mounts}
    /\ files = SchedFiles
    /\ dirs = UNION {DirChain(DirOf(p)) : p \in DOMAIN SchedFiles}
    /\ \E a \in {0, DiskTotal - 2}, b \in {0, NasTotal - 2} :
          other = [m \in Mounts \cup {NasMount} |->
                      IF m = NasMount THEN b ELSE a]
    /\ cameras = 0
    /\ \E r \in {MIN_RETENTION_DAYS, DEFAULT_RETENTION_DAYS},
          second \in SecondVolumes :
          volumes = (1 :> [DefaultVolume EXCEPT !.retention_days = r])
                    @@ (2 :> second)
    /\ last = [op |-> "none"]
    /\ calc = NoCalc
    /\ sched = NewManager
    /\ faulty \in {{}, {ProbeFault(1, NasMount)}, {ProbeFault(2, NasMount)},
                   {ProbeFault(2, "/recordings")}}

\* GET /{volume_id}/retention/analysis: the analysis of the volume, or 400
\* with the error the analysis reports.
get_retention_analysis(volume_id) ==
    /\ \E r \in {analyze_storage_and_retention(volumes, Fs, mounted, other,
                                                cameras, now, volume_id)} :
          last' = [op |-> "analysis",
                   volume_id |-> volume_id,
                   http |-> IF r.error = None THEN 200 ELSE 400,
                   free_bytes |-> IF r.error = None THEN r.free_bytes ELSE 0,
                   warnings |-> IF r.error = None THEN r.warnings ELSE << >>]
    /\ UNCHANGED <<now, mounted, files, dirs, other, cameras, volumes, calc,
                   sched, faulty>>

ProbeNext ==
    \/ \E v \in VolumeIds : get_retention_analysis(v)
    \/ StartCall
    \/ \E k \in 1..MaxTasks : LoopWake(k)
    \/ \E k \in 1..MaxTasks, rows \in ActiveRows(volumes) :
          LoopSelected(k, rows)
    \/ \E k \in 1..MaxTasks : LoopCommitted(k)
    \/ \E p \in Paths : Chmod(p)

SpecProbe ==
    ProbeInit /\ [][ProbeNext]_vars


----------------------------------------------------------------------------
(* C23 - C26: one iteration, volume by volume *)

\* volume.retention_days or 7, for the stored row v.
StoredRetention(v) ==
    IF volumes[v].retention_days = 0
    THEN DEFAULT_RETENTION_DAYS
    ELSE volumes[v].retention_days

\* The free blocks of the disk of volume v once every recording beneath its
\* mount path that has reached the stored retention and can be removed is
\* gone.
FreeAfterExpiry(v) ==
    LET m == volumes[v].mount_path
    IN  DiskTotalOf(m) - other[m]
        - SizeSum({p \in Present(m) :
                      files[p].locked \/ Age(p) < StoredRetention(v)})

\* Row v is among the calls of delete_oldest_recordings_until_space of the
\* step recorded in l.
EvictedIn(l, v) ==
    \E i \in 1..Len(l.evictions) : l.evictions[i].volume_id = v

\* C23: within one iteration, for every volume processed, expiry with the
\* stored retention_days has completed when disk usage is probed (the probe
\* measures the disk without the expired recordings), eviction is invoked if
\* and only if the free percentage measured by that probe is below 5%, and no
\* step of the iteration changes a stored retention_days.
C23_ExpiryProbeEviction ==
    [][/\ \A v \in DOMAIN volumes :
             volumes'[v].retention_days = volumes[v].retention_days
       /\ (last'.op = "process" /\ ~last'.raised) =>
             \A v \in last'.visited :
                 /\ ProbeFault(1, volumes[v].mount_path) \notin faulty =>
                       last'.probes[v] =
                           [total |-> DiskTotalOf(volumes[v].mount_path),
                            free |-> FreeAfterExpiry(v)]
                 /\ EvictedIn(last', v) <=>
                       /\ last'.probes[v].total > 0
                       /\ last'.probes[v].free * 100
                             < MIN_FREE_PERCENT * last'.probes[v].total]_vars

\* An iteration over two volumes in which expiry removed a recording, one
\* volume was measured below 5% after it and evicted, and the other was
\* measured at 5% or more and not evicted.
C23_Witness ==
    /\ last.op = "process"
    /\ ~last.raised
    /\ last.visited = {1, 2}
    /\ Len(last.evictions) = 1
    /\ last.deleted > last.evictions[1].deleted
    /\ \E v \in last.visited :
          /\ ~EvictedIn(last, v)
          /\ last.probes[v].total > 0
          /\ last.probes[v].free * 100
                >= MIN_FREE_PERCENT * last.probes[v].total


\* new_total, new_used of the second get_disk_usage(mount_path) for row v,
\* taken on the recordings f that the iteration has left.
LastMeasurement(f, v) ==
    LET m == volumes[v].mount_path
    IN  IF ProbeFault(2, m) \in faulty
        THEN [total |-> 0, used |-> 0]
        ELSE [total |-> DiskTotalOf(m),
              used |-> other[m]
                       + SizeSumIn(f, {p \in DOMAIN f : Beneath(p, m)})]

\* The free percentage of a measurement is below the margin; the percentage of
\* a measurement with total = 0 is taken to be 0.
BelowMargin(meas) ==
    \/ meas.total = 0
    \/ (meas.total - meas.used) * 100 < MIN_FREE_PERCENT * meas.total

\* The attributes the iteration has set on row v are those of the last
\* measurement meas.
SetFrom(updates, v, meas) ==
    /\ v \in DOMAIN updates
    /\ updates[v].status = IF BelowMargin(meas) THEN "full" ELSE "active"
    /\ updates[v].total_bytes = meas.total
    /\ updates[v].used_bytes = meas.used

\* Loop task k goes from its query to "await db.commit()" in this step.
Processes(k) ==
    sched.loops[k].pc = "select" /\ sched'.loops[k].pc = "commit"

\* Loop task k goes from "await db.commit()" to its sleep in this step: the
\* iteration is completed.
Completes(k) ==
    sched.loops[k].pc = "commit" /\ sched'.loops[k].pc = "sleep" /\ ~DbDown

\* The rows hold, after the commit, what the iteration set on them.
Written(k) ==
    \A v \in DOMAIN sched.loops[k].run.updates :
        /\ volumes'[v].status = sched.loops[k].run.updates[v].status
        /\ volumes'[v].total_bytes = sched.loops[k].run.updates[v].total_bytes
        /\ volumes'[v].used_bytes = sched.loops[k].run.updates[v].used_bytes

\* C24 as stated: after a completed iteration every processed volume has
\* status = full if and only if its free percentage re-measured after expiry
\* and eviction is below 5%, and active otherwise; total_bytes and used_bytes
\* hold that last measurement.
C24_StatusOfEveryProcessedVolume ==
    [][\A k \in 1..MaxTasks :
          /\ Processes(k) =>
                \A v \in last'.visited :
                    SetFrom(sched'.loops[k].run.updates, v,
                            LastMeasurement(files', v))
          /\ Completes(k) => Written(k)]_vars

\* C24, amended: after a completed iteration every processed volume whose
\* probe after expiry gave total > 0 has status = full if and only if its
\* free percentage re-measured after expiry and eviction is below 5%, and
\* active otherwise, and total_bytes and used_bytes hold that last
\* measurement; a processed volume whose probe after expiry gave (0, 0, 0)
\* keeps the status, total_bytes and used_bytes it had.
C24_StatusOfEveryMeasuredVolume ==
    [][\A k \in 1..MaxTasks :
          /\ Processes(k) =>
                \A v \in last'.visited :
                    IF last'.probes[v].total > 0
                    THEN SetFrom(sched'.loops[k].run.updates, v,
                                 LastMeasurement(files', v))
                    ELSE v \notin DOMAIN sched'.loops[k].run.updates
          /\ Completes(k) =>
                /\ Written(k)
                /\ \A v \in DOMAIN volumes :
                      v \notin DOMAIN sched.loops[k].run.updates =>
                          volumes'[v] = volumes[v]]_vars

\* A completed iteration that left the share full, with the measurement of
\* its disk in the row, and the local volume active.
C24_Witness ==
    /\ last.op = "commit"
    /\ ~last.raised
    /\ volumes[2].status = "full"
    /\ volumes[2].total_bytes = NasTotal
    /\ (NasTotal - volumes[2].used_bytes) * 100 < MIN_FREE_PERCENT * NasTotal
    /\ volumes[1].status = "active"
    /\ volumes[1].total_bytes = DiskTotal
    /\ volumes[1].used_bytes < DiskTotal


\* Row v is one the iteration has to skip: is_active = false, or no
\* mount_path, or a mount_path that does not exist.
Skipped(v) ==
    \/ ~volumes[v].is_active
    \/ volumes[v].mount_path = None
    \/ /\ volumes[v].mount_path \notin mounted
       /\ volumes[v].mount_path \notin dirs

\* C25: an iteration removes no file under, and writes no field of, a volume
\* with is_active = false or with a missing or unreadable mount_path, and such
\* a volume does not stop the iteration: every other active volume with a
\* readable path is processed in the same iteration.
C25_SkippedVolumesUntouched ==
    [][last'.op \in {"process", "commit"} =>
          /\ \A v \in DOMAIN volumes :
                Skipped(v) =>
                    /\ volumes'[v] = volumes[v]
                    /\ \A p \in DOMAIN files :
                          Beneath(p, volumes[v].mount_path) =>
                              p \in DOMAIN files'
          /\ last'.op = "process" =>
                \A v \in DOMAIN volumes : ~Skipped(v) => v \in last'.visited]_vars


\* C26: an all-zero probe result is treated as unknown: an iteration runs no
\* eviction for a volume whose probe after expiry gave (0, 0, 0), and it
\* neither sets status = full nor stores total_bytes = 0 or used_bytes = 0
\* from a probe that gave (0, 0, 0), the second probe of a path that was
\* readable at the first one included.
C26_ZeroProbeIsUnknown ==
    [][\A k \in 1..MaxTasks :
          Processes(k) =>
              \A v \in last'.visited :
                  /\ last'.probes[v].total = 0 =>
                        /\ ~EvictedIn(last', v)
                        /\ v \notin DOMAIN sched'.loops[k].run.updates
                  /\ (/\ LastMeasurement(files', v).total = 0
                      /\ v \in DOMAIN sched'.loops[k].run.updates) =>
                        /\ sched'.loops[k].run.updates[v].status # "full"
                        /\ sched'.loops[k].run.updates[v].total_bytes # 0]_vars


----------------------------------------------------------------------------
(* C27: the list of errors *)

\* C27: the list cleanup_stats["errors"] is bounded: there is a fixed bound
\* that its length never exceeds, however many iterations of the loop fail.
\* The list is only ever appended to, so the bound is put to the test at the
\* greatest length the model counts: a list held below a fixed bound would
\* not reach it.
C27_ErrorListBounded ==
    sched.cleanup_stats.errors < MaxErrors


----------------------------------------------------------------------------
(* C28: the warnings of the analysis *)

\* The analysis just returned carries a warning of this kind.
Warns(kind) ==
    \E i \in 1..Len(last.warnings) : last.warnings[i] = kind

\* C28: the analysis emits the critical low-space warning if and only if the
\* free percentage of the volume's disk is below 5, and the low-space warning
\* if and only if it is at least 5 and below 10; the two are never emitted
\* together, and neither is emitted at 10 or more.  The free percentage is
\* that of the disk as it is: total minus the other data and the recordings.
C28_LowSpaceWarnings ==
    (last.op = "analysis" /\ last.http = 200) =>
        LET m == volumes[last.volume_id].mount_path
            total == DiskTotalOf(m)
            free == total - other[m] - SizeSum(Present(m))
        IN  /\ Warns("critical") <=> free * 100 < 5 * total
            /\ Warns("warning") <=>
                  (5 * total <= free * 100 /\ free * 100 < 10 * total)
            /\ ~(Warns("critical") /\ Warns("warning"))
            /\ free * 100 >= 10 * total =>
                  ~Warns("critical") /\ ~Warns("warning")

\* An analysis of a disk with exactly 5% free: the low-space warning, and
\* not the critical one.
C28_Witness ==
    /\ last.op = "analysis"
    /\ last.http = 200
    /\ last.free_bytes * 100 = 5 * DiskTotalOf(volumes[last.volume_id].mount_path)
    /\ Warns("warning")
    /\ ~Warns("critical")


----------------------------------------------------------------------------
(* C29: what the counters of cleanup_stats count *)

\* The files and the blocks that the runs of s awaiting db.commit() have
\* removed and not yet added to cleanup_stats.
PendingDeleted(s) ==
    SumSeq([k \in 1..MaxTasks |->
               IF s.loops[k].pc = "commit"
               THEN s.loops[k].run.total_deleted ELSE 0], MaxTasks)
    + SumSeq([c \in 1..MaxCalls |->
                 IF s.calls[c].pc = "commit"
                 THEN s.calls[c].run.total_deleted ELSE 0], MaxCalls)

PendingFreed(s) ==
    SumSeq([k \in 1..MaxTasks |->
               IF s.loops[k].pc = "commit"
               THEN s.loops[k].run.total_freed ELSE 0], MaxTasks)
    + SumSeq([c \in 1..MaxCalls |->
                 IF s.calls[c].pc = "commit"
                 THEN s.calls[c].run.total_freed ELSE 0], MaxCalls)

\* Call c of force_cleanup goes from its query to "await db.commit()" in
\* this step, or from "await db.commit()" to its return.
ForceProcesses(c) ==
    sched.calls[c].pc = "select" /\ sched'.calls[c].pc = "commit"

ForceCompletes(c) ==
    sched.calls[c].pc = "commit" /\ sched'.calls[c].pc = "idle" /\ ~DbDown

\* C29: no deletion is counted twice, however the calls of force_cleanup and
\* the iterations of the loop interleave: a run counts exactly the files (and
\* blocks) that its own pass removes; a run that completes adds exactly that
\* to cleanup_stats; no other step changes the counters, which never
\* decrease; so the counters, with what the runs awaiting their commit hold,
\* never exceed the files (blocks) gone from the disk.
C29_NoDoubleCount ==
    [][/\ sched'.cleanup_stats.files_deleted >= sched.cleanup_stats.files_deleted
       /\ sched'.cleanup_stats.bytes_freed >= sched.cleanup_stats.bytes_freed
       /\ sched'.cleanup_stats.files_deleted + PendingDeleted(sched')
             <= Cardinality(DOMAIN SchedFiles \ DOMAIN files')
       /\ sched'.cleanup_stats.bytes_freed + PendingFreed(sched')
             <= SizeSumIn(SchedFiles, DOMAIN SchedFiles \ DOMAIN files')
       /\ \A k \in 1..MaxTasks :
             /\ Processes(k) =>
                   /\ sched'.loops[k].run.total_deleted
                         = Cardinality(DOMAIN files \ DOMAIN files')
                   /\ sched'.loops[k].run.total_freed
                         = SizeSum(DOMAIN files \ DOMAIN files')
             /\ Completes(k) =>
                   /\ sched'.cleanup_stats.files_deleted
                         = sched.cleanup_stats.files_deleted
                           + sched.loops[k].run.total_deleted
                   /\ sched'.cleanup_stats.bytes_freed
                         = sched.cleanup_stats.bytes_freed
                           + sched.loops[k].run.total_freed
       /\ \A c \in 1..MaxCalls :
             /\ ForceProcesses(c) =>
                   /\ sched'.calls[c].run.total_deleted
                         = Cardinality(DOMAIN files \ DOMAIN files')
                   /\ sched'.calls[c].run.total_freed
                         = SizeSum(DOMAIN files \ DOMAIN files')
             /\ ForceCompletes(c) =>
                   /\ sched'.cleanup_stats.files_deleted
                         = sched.cleanup_stats.files_deleted
                           + sched.calls[c].run.total_deleted
                   /\ sched'.cleanup_stats.bytes_freed
                         = sched.cleanup_stats.bytes_freed
                           + sched.calls[c].run.total_freed
       /\ (/\ \A k \in 1..MaxTasks : ~Completes(k)
           /\ \A c \in 1..MaxCalls : ~ForceCompletes(c)) =>
             /\ sched'.cleanup_stats.files_deleted
                   = sched.cleanup_stats.files_deleted
             /\ sched'.cleanup_stats.bytes_freed
                   = sched.cleanup_stats.bytes_freed]_vars

\* A call of force_cleanup and an iteration of the loop in flight together:
\* the iteration removed the expired recording and has just completed, the
\* call ran its pass in between, found nothing left to remove and awaits its
\* commit; the recording is counted once.
C29_Witness ==
    /\ last.op = "commit"
    /\ last.owner = "loop"
    /\ ~last.raised
    /\ \E c \in 1..MaxCalls :
          /\ sched.calls[c].pc = "commit"
          /\ sched.calls[c].run.total_deleted = 0
    /\ sched.cleanup_stats.files_deleted = 1
    /\ Cardinality(DOMAIN SchedFiles \ DOMAIN files) = 1
====
